---- MODULE Spec2Model ----
(***************************************************************************)
(* Real-time leaderboard: the player store and its rank queries            *)
(* (models/Player, routes/leaderboard, routes/players) and the game        *)
(* session engine (models/GameSession, routes/sessions).                   *)
(*                                                                         *)
(* Time is a logical clock `now`; one unit is one second, and operations   *)
(* handled in the same unit are less than half a second apart.             *)
(***************************************************************************)
EXTENDS Integers, Sequences, FiniteSets, TLC

\* ------------------------------------------------------------ bounds
MaxScore == 1
MaxTime == 1
\* the longest event log a session is followed to
MaxEvents == 6
\* the number of score-update attempts followed
MaxAttempts == 5
\* the games a player's totalGamesPlayed counts at most
MaxGames == 2

\* ------------------------------------------------------------ domains
PlayerIds == {"p1", "p2", "p3"}
\* two of the six regions and two of the five game modes of the schema
Regions == {"NA", "GLOBAL"}
GameModes == {"classic", "blitz"}
\* the (region, currentGameMode) pairs players are created with
AllProfiles == Regions \X GameModes
TwoProfiles == {<<"NA", "classic">>, <<"GLOBAL", "blitz">>}
Scores == 0..MaxScore
\* an absent (undefined / null) request parameter or document
None == "none"
NoPlayer == [exists |-> FALSE]
\* a null date or number of a document
Null == 0 - 1
NoSession == [exists |-> FALSE]
\* request slots: at most two requests of a kind are in flight at once
ReqIds == {"r1", "r2"}
Idle == [pc |-> "idle"]

\* JavaScript truthiness of an optional string parameter
Truthy(x) == x # None

Min(a, b) == IF a < b THEN a ELSE b
Max(a, b) == IF a > b THEN a ELSE b

VARIABLES
    players,    \* the players collection: playerId -> document or NoPlayer
    now,        \* the clock (Date.now())
    resp,       \* the response a request handler has just produced
    calls,      \* POST /api/players/:playerId/score requests in flight
    session,    \* the game_sessions document of one session
    joins,      \* session requests (join, leave) in flight between their awaits
    rateLimit,  \* scoreUpdateRateLimit: playerId -> accepted timestamps kept
    attempts,   \* the score-update attempts made so far, with their outcome
    connectedPlayers,   \* playerId -> { socketId, lastActivity, region, gameMode }
    socketToPlayer,     \* socketId -> playerId
    roomSubscriptions,  \* playerId -> set of room names
    sockets,    \* socketId -> the transport: connected or not, rooms joined
    handlers,   \* socketId -> the socket's event handlers between their awaits
    lastSweep   \* the time the cleanup interval last fired (or was set up)

vars == <<players, now, resp, calls, session, joins, rateLimit, attempts,
          connectedPlayers, socketToPlayer, roomSubscriptions, sockets, handlers,
          lastSweep>>

\* the rate limiter's map and the log of attempts
limiter == <<rateLimit, attempts>>
\* the SocketService instance and its sockets
registry == <<connectedPlayers, socketToPlayer, roomSubscriptions, sockets,
              handlers, lastSweep>>

\* what the leaderboard handlers and the plain store writes leave alone
beyondBoard == <<calls, session, joins, limiter, registry>>

NoResp == [op |-> "none"]

\* ------------------------------------------------------------ Map
\* A JavaScript Map as a function on the keys it holds.
EmptyMap == [k \in {} |-> None]
has(map, k) == k \in DOMAIN map
set(map, k, v) == [j \in DOMAIN map \cup {k} |-> IF j = k THEN v ELSE map[j]]
delete(map, k) == [j \in DOMAIN map \ {k} |-> map[j]]

\* the connections the server sees: socket.id
SocketIds == {"s1", "s2"}
\* a socket id that no connection carries yet; a socket is "new", then
\* "connected", then "closed", and rooms are the rooms it has joined
NoSocket == [status |-> "new", rooms |-> {}]
\* no handler of the socket is between two awaits
NoHandlers == [join |-> Idle, disc |-> Idle, score |-> Idle, status |-> Idle]

\* ------------------------------------------------------------ Player model
Existing == {p \in PlayerIds : players[p].exists}

\* find(matchConditions): a condition that is None is absent from the query
\* (the only isOnline condition the queries build is isOnline: true)
matches(p, mc) ==
    /\ players[p].exists
    /\ (mc.region # None => players[p].region = mc.region)
    /\ (mc.currentGameMode # None => players[p].currentGameMode = mc.currentGameMode)
    /\ (mc.isOnline # None => players[p].isOnline)

find(mc) == {p \in PlayerIds : matches(p, mc)}

\* the sort without its second key
sortsBefore_scoreOnly(a, b) ==
    players[a].currentScore > players[b].currentScore

\* .sort({ currentScore: -1, lastActiveAt: -1 }): a before b is allowed
\* unless b sorts strictly first; documents equal on both keys come in
\* either order.
sortsBefore(a, b) ==
    \/ players[a].currentScore > players[b].currentScore
    \/ /\ players[a].currentScore = players[b].currentScore
       /\ players[a].lastActiveAt > players[b].lastActiveAt

sorted(S) ==
    {s \in [1..Cardinality(S) -> S] :
        /\ \A i, j \in 1..Cardinality(S) : i # j => s[i] # s[j]
        /\ \A i, j \in 1..Cardinality(S) : i < j => ~sortsBefore(s[j], s[i])}

\* .limit(limit).skip(skip): skip first, then at most limit documents
limitSkip(s, skip, limit) ==
    IF skip >= Len(s) THEN <<>>
    ELSE SubSeq(s, skip + 1, Min(Len(s), skip + limit))

\* the conditions with GLOBAL taken as a literal region
leaderboardConditions_literalGlobal(region, gameMode, onlineOnly) ==
    [region |-> IF Truthy(region) THEN region ELSE None,
     currentGameMode |-> IF Truthy(gameMode) THEN gameMode ELSE None,
     isOnline |-> IF onlineOnly THEN "true" ELSE None]

\* getLeaderboard's matchConditions
leaderboardConditions(region, gameMode, onlineOnly) ==
    [region |-> IF Truthy(region) /\ region # "GLOBAL" THEN region ELSE None,
     currentGameMode |-> IF Truthy(gameMode) THEN gameMode ELSE None,
     isOnline |-> IF onlineOnly THEN "true" ELSE None]

\* Player.getLeaderboard: the set of result lists the store may return
getLeaderboard(limit, skip, region, gameMode, onlineOnly) ==
    {limitSkip(s, skip, limit) :
        s \in sorted(find(leaderboardConditions(region, gameMode, onlineOnly)))}

\* getPlayerRank's matchConditions, without the $gt condition
rankConditions(region, gameMode) ==
    [region |-> IF Truthy(region) /\ region # "GLOBAL" THEN region ELSE None,
     currentGameMode |-> IF Truthy(gameMode) THEN gameMode ELSE None,
     isOnline |-> None]

\* the count with $gte in place of $gt
countAhead_gte(score, mc) ==
    Cardinality({q \in find(mc) : players[q].currentScore >= score})

\* countDocuments({ currentScore: { $gt: score }, ...matchConditions })
countAhead(score, mc) ==
    Cardinality({q \in find(mc) : players[q].currentScore > score})

\* Player.getPlayerRank (0 stands for the null of an unknown player)
getPlayerRank(playerId, region, gameMode) ==
    IF ~players[playerId].exists THEN 0
    ELSE countAhead(players[playerId].currentScore,
                    rankConditions(region, gameMode)) + 1

\* ------------------------------------------------------------ store writes
\* POST /api/players: new Player({ region, currentGameMode }).save(),
\* for the player ids and (region, mode) pairs a specification draws from,
\* with a username no other player has (the player's id stands for it)
CreatePlayer(ids, profiles) ==
    \E p \in ids, pr \in profiles :
        /\ resp = NoResp
        /\ ~players[p].exists
        /\ players' = [players EXCEPT ![p] =
                [exists |-> TRUE, username |-> p, region |-> pr[1],
                 currentGameMode |-> pr[2], currentScore |-> 0,
                 totalGamesPlayed |-> 0, bestScore |-> 0,
                 lastActiveAt |-> now, isOnline |-> FALSE]]
        /\ UNCHANGED <<now, resp, beyondBoard>>

\* the counter has room for one more game of player p
gamesRoom(p) == players[p].exists => players[p].totalGamesPlayed < MaxGames

\* the write without the increment of the counter
Player_updatePlayerScore_noInc(p, newScore, gameMode) ==
    [players EXCEPT ![p] =
        [@ EXCEPT !.currentScore = newScore,
                  !.lastActiveAt = now,
                  !.currentGameMode = IF Truthy(gameMode) THEN gameMode ELSE @]]

\* the write without the new score
Player_updatePlayerScore_keepsScore(p, newScore, gameMode) ==
    [players EXCEPT ![p] =
        [@ EXCEPT !.lastActiveAt = now,
                  !.totalGamesPlayed = @ + 1,
                  !.currentGameMode = IF Truthy(gameMode) THEN gameMode ELSE @]]

\* Player.updatePlayerScore (findOneAndUpdate: one atomic store write,
\* $inc of totalGamesPlayed included)
Player_updatePlayerScore(p, newScore, gameMode) ==
    [players EXCEPT ![p] =
        [@ EXCEPT !.currentScore = newScore,
                  !.totalGamesPlayed = @ + 1,
                  !.lastActiveAt = now,
                  !.currentGameMode = IF Truthy(gameMode) THEN gameMode ELSE @]]

\* a score update's store write, as issued by any of its callers
ScoreWrite(modes) ==
    \E p \in PlayerIds, s \in Scores, m \in modes :
        /\ resp = NoResp
        /\ players[p].exists
        /\ gamesRoom(p)
        /\ players' = Player_updatePlayerScore(p, s, m)
        /\ UNCHANGED <<now, resp, beyondBoard>>

\* Player.findOne({ playerId }): the document as the store holds it now,
\* which the caller keeps while it awaits
load(p) ==
    [playerId |-> p, currentScore |-> players[p].currentScore,
     totalGamesPlayed |-> players[p].totalGamesPlayed,
     bestScore |-> players[p].bestScore]

\* playerSchema.pre('save') on a loaded document: its bestScore afterwards
bestAfterSave(doc) ==
    IF doc.currentScore > doc.bestScore THEN doc.currentScore ELSE doc.bestScore

\* doc.updateOnlineStatus(isOnline): save() writes the paths that were
\* set, which are isOnline, lastActiveAt and, when the hook raised it on
\* the loaded document, bestScore
updateOnlineStatus(doc, isOnline) ==
    [players EXCEPT ![doc.playerId] =
        [@ EXCEPT !.isOnline = isOnline,
                  !.lastActiveAt = now,
                  !.bestScore = IF bestAfterSave(doc) # doc.bestScore
                                THEN bestAfterSave(doc) ELSE @]]

StatusWrite ==
    \E p \in PlayerIds, b \in BOOLEAN :
        /\ resp = NoResp
        /\ players[p].exists
        /\ players' = updateOnlineStatus(load(p), b)
        /\ UNCHANGED <<now, resp, beyondBoard>>

Tick ==
    /\ resp = NoResp
    /\ now < MaxTime
    /\ now' = now + 1
    /\ UNCHANGED <<players, resp, beyondBoard>>

\* res.status(...).json(...): the response leaves the handler
Deliver ==
    /\ resp # NoResp
    /\ resp' = NoResp
    /\ UNCHANGED <<players, now, beyondBoard>>

\* ------------------------------------------------------------ rank lookup
\* Player.getPlayerRank as the player routes call it, for the
\* (region, gameMode) options a specification draws from
GetPlayerRank(filters) ==
    \E p \in PlayerIds, f \in filters :
        /\ resp = NoResp
        /\ resp' = [op |-> "rank", playerId |-> p, region |-> f[1],
                    gameMode |-> f[2],
                    rank |-> getPlayerRank(p, f[1], f[2])]
        /\ UNCHANGED <<players, now, beyondBoard>>

Init ==
    /\ players = [p \in PlayerIds |-> NoPlayer]
    /\ now = 0
    /\ resp = NoResp
    /\ calls = [r \in ReqIds |-> Idle]
    /\ session = NoSession
    /\ joins = [r \in ReqIds |-> Idle]
    /\ rateLimit = EmptyMap
    /\ attempts = <<>>
    /\ connectedPlayers = EmptyMap
    /\ socketToPlayer = EmptyMap
    /\ roomSubscriptions = EmptyMap
    /\ sockets = [s \in SocketIds |-> NoSocket]
    /\ handlers = [s \in SocketIds |-> NoHandlers]
    /\ lastSweep = 0

RankFilters == {None, "NA", "GLOBAL"} \X ({None} \cup GameModes)

NextRank ==
    \/ Deliver
    \/ CreatePlayer(PlayerIds, AllProfiles)
    \/ ScoreWrite({None} \cup GameModes)
    \/ GetPlayerRank(RankFilters)

SpecRank == Init /\ [][NextRank]_vars

\* what the specification says a filter selects: a region other than
\* GLOBAL restricts to that region, a game mode restricts to that mode
inFilter(q, region, gameMode) ==
    /\ players[q].exists
    /\ (region \in {None, "GLOBAL"} \/ players[q].region = region)
    /\ (gameMode = None \/ players[q].currentGameMode = gameMode)

\* C1: the rank returned for an existing player under a filter is 1 + the
\* number of players in the filter with a strictly greater current score,
\* and players with equal scores get equal ranks under every filter.
C1_RankIsCountOfStrictlyGreater ==
    /\ (resp.op = "rank" /\ players[resp.playerId].exists) =>
          resp.rank = 1 + Cardinality({q \in PlayerIds :
                /\ inFilter(q, resp.region, resp.gameMode)
                /\ players[q].currentScore
                      > players[resp.playerId].currentScore})
    /\ \A p, q \in Existing, f \in RankFilters :
          players[p].currentScore = players[q].currentScore =>
              getPlayerRank(p, f[1], f[2]) = getPlayerRank(q, f[1], f[2])

\* two tied players behind a higher one: the tied one asked for gets rank 2
C1_Witness ==
    /\ resp.op = "rank"
    /\ players[resp.playerId].exists
    /\ resp.rank = 2
    /\ \E q \in Existing \ {resp.playerId} :
          /\ inFilter(q, resp.region, resp.gameMode)
          /\ players[q].currentScore = players[resp.playerId].currentScore

\* ------------------------------------------------------------ around a player
MaxRange == 50

\* isNaN(rangeValue) || rangeValue < 1 || rangeValue > 50
invalidRange(rangeValue) == rangeValue < 1 \/ rangeValue > MaxRange

\* the mapping with every window numbered from 1
playersWithRanks_fromOne(list, startRank, playerId) ==
    [i \in 1..Len(list) |->
        [rank |-> i,
         playerId |-> list[i],
         isTargetPlayer |-> (list[i] = playerId)]]

\* playersAround.map((p, index) => ({ rank: startRank + index, ... }))
playersWithRanks(list, startRank, playerId) ==
    [i \in 1..Len(list) |->
        [rank |-> startRank + (i - 1),
         playerId |-> list[i],
         isTargetPlayer |-> (list[i] = playerId)]]

\* GET /api/leaderboard/around/:playerId: the responses the handler may send
aroundResponses(playerId, rangeValue, region, gameMode) ==
    IF invalidRange(rangeValue)
    THEN {[status |-> 400, error |-> "INVALID_RANGE"]}
    ELSE IF ~players[playerId].exists
    THEN {[status |-> 404, error |-> "PLAYER_NOT_FOUND"]}
    ELSE
        LET fRegion == IF Truthy(region) THEN region ELSE players[playerId].region
            fMode == IF Truthy(gameMode) THEN gameMode
                     ELSE players[playerId].currentGameMode
            playerRank == getPlayerRank(playerId, fRegion, fMode)
            startRank == Max(1, playerRank - rangeValue)
            endRank == playerRank + rangeValue
            skip == startRank - 1
            limit == endRank - startRank + 1
        IN  {[status |-> 200,
              currentRank |-> playerRank,
              startRank |-> startRank,
              endRank |-> endRank,
              fRegion |-> fRegion,
              fMode |-> fMode,
              playersAround |-> playersWithRanks(l, startRank, playerId)] :
                l \in getLeaderboard(limit, skip, fRegion, fMode, FALSE)}

GetAround(ranges, filters) ==
    \E p \in PlayerIds, rangeValue \in ranges, f \in filters :
        \E body \in aroundResponses(p, rangeValue, f[1], f[2]) :
            /\ resp = NoResp
            /\ resp' = [op |-> "around", playerId |-> p, range |-> rangeValue,
                        region |-> f[1], gameMode |-> f[2], body |-> body]
            /\ UNCHANGED <<players, now, beyondBoard>>

RangeInputs == {0, 1, MaxRange, MaxRange + 1}
AroundFilters == {<<None, None>>, <<"NA", None>>, <<None, "blitz">>}

NextAround ==
    \/ Deliver
    \/ CreatePlayer(PlayerIds, TwoProfiles)
    \/ ScoreWrite({None})
    \/ Tick
    \/ GetAround(RangeInputs, AroundFilters)

SpecAround == Init /\ [][NextAround]_vars

\* C2: the window around p under p's own region and game mode contains
\* p's entry, flagged as the target player.
C2_WindowContainsTarget ==
    (/\ resp.op = "around"
     /\ resp.region = None /\ resp.gameMode = None
     /\ resp.body.status = 200) =>
        \E i \in 1..Len(resp.body.playersAround) :
            /\ resp.body.playersAround[i].playerId = resp.playerId
            /\ resp.body.playersAround[i].isTargetPlayer

\* C3: the window carries consecutive ranks from max(1, R - range), ends
\* no later than R + range, has at most 2*range+1 entries and no rank above
\* the number of players in the filter, R being the player's rank under
\* the filter; a range outside [1,50] is rejected without a window.
C3_WindowRanks ==
    resp.op = "around" =>
        /\ (resp.range < 1 \/ resp.range > 50) <=> resp.body.status = 400
        /\ resp.body.status = 400 => "playersAround" \notin DOMAIN resp.body
        /\ resp.body.status = 200 =>
            LET w == resp.body.playersAround
                R == resp.body.currentRank
                inF(q) == inFilter(q, resp.body.fRegion, resp.body.fMode)
                N == Cardinality({q \in PlayerIds : inF(q)})
            IN  /\ R = 1 + Cardinality({q \in PlayerIds :
                          /\ inF(q)
                          /\ players[q].currentScore
                                > players[resp.playerId].currentScore})
                /\ \A i \in 1..Len(w) :
                      /\ w[i].rank = Max(1, R - resp.range) + (i - 1)
                      /\ w[i].rank <= R + resp.range
                      /\ w[i].rank <= N
                /\ Len(w) <= 2 * resp.range + 1

\* a window that starts above rank 1 and is cut by the population size
C3_Witness ==
    /\ resp.op = "around"
    /\ resp.body.status = 200
    /\ resp.range = 1
    /\ resp.body.currentRank = 3
    /\ Len(resp.body.playersAround) = 2
    /\ resp.body.playersAround[1].rank = 2

\* ------------------------------------------------------------ top N
MaxCount == 100

\* isNaN(count) || count < 1 || count > 100
invalidCount(count) == count < 1 \/ count > MaxCount

\* topPlayers.map((player, index) => ({ rank: index + 1, ... }))
topPlayersWithRanks(list) ==
    [i \in 1..Len(list) |-> [rank |-> i, playerId |-> list[i]]]

\* GET /api/leaderboard/top/:count: the responses the handler may send
topResponses(count, region, gameMode, onlineOnly) ==
    IF invalidCount(count)
    THEN {[status |-> 400, error |-> "INVALID_COUNT", topPlayers |-> <<>>]}
    ELSE {[status |-> 200, error |-> None, topPlayers |-> topPlayersWithRanks(l)] :
            l \in getLeaderboard(count, 0, region, gameMode, onlineOnly)}

GetTop(counts, filters) ==
    \E count \in counts, f \in filters, onlineOnly \in BOOLEAN :
        \E body \in topResponses(count, f[1], f[2], onlineOnly) :
            /\ resp = NoResp
            /\ resp' = [op |-> "top", count |-> count, region |-> f[1],
                        gameMode |-> f[2], onlineOnly |-> onlineOnly,
                        body |-> body]
            /\ UNCHANGED <<players, now, beyondBoard>>

CountInputs == {0, 1, 2, MaxCount, MaxCount + 1}
TopFilters == {None, "NA"} \X {None, "blitz"}

NextTop ==
    \/ Deliver
    \/ CreatePlayer({"p1", "p2"}, TwoProfiles)
    \/ ScoreWrite({None})
    \/ StatusWrite
    \/ Tick
    \/ GetTop(CountInputs, TopFilters)

SpecTop == Init /\ [][NextTop]_vars

\* what the specification says a leaderboard filter selects
inBoardFilter(q, region, gameMode, onlineOnly) ==
    /\ inFilter(q, region, gameMode)
    /\ (onlineOnly => players[q].isOnline)

\* C4: topN(n, filter) with n in [1,100] returns exactly min(n, matching)
\* players, all in the filter, by score descending and, for equal scores,
\* by activity descending, and omits nobody with a higher score than a
\* returned player; any other n is refused and returns no players.
C4_TopN ==
    resp.op = "top" =>
        LET l == resp.body.topPlayers
            M == {q \in PlayerIds :
                    inBoardFilter(q, resp.region, resp.gameMode, resp.onlineOnly)}
            doc(i) == players[l[i].playerId]
        IN  IF resp.count >= 1 /\ resp.count <= 100
            THEN /\ resp.body.status = 200
                 /\ Len(l) = Min(resp.count, Cardinality(M))
                 /\ \A i \in 1..Len(l) : l[i].playerId \in M
                 /\ \A i, j \in 1..Len(l) : i < j =>
                       /\ l[i].playerId # l[j].playerId
                       /\ doc(i).currentScore >= doc(j).currentScore
                       /\ doc(i).currentScore = doc(j).currentScore =>
                             doc(i).lastActiveAt >= doc(j).lastActiveAt
                 /\ \A q \in M \ {l[i].playerId : i \in 1..Len(l)} :
                       \A i \in 1..Len(l) :
                           players[q].currentScore <= doc(i).currentScore
            ELSE /\ resp.body.status = 400
                 /\ resp.body.error = "INVALID_COUNT"
                 /\ l = <<>>

\* two players tied on score, the more recently active one listed first
C4_Witness ==
    /\ resp.op = "top"
    /\ resp.body.status = 200
    /\ Len(resp.body.topPlayers) = 2
    /\ LET a == players[resp.body.topPlayers[1].playerId]
           b == players[resp.body.topPlayers[2].playerId]
       IN  /\ a.currentScore = b.currentScore
           /\ a.currentScore > 0
           /\ a.lastActiveAt > b.lastActiveAt

\* ------------------------------------------------------------ page and stats
MaxLimit == 100

\* leaderboardSchemas.query: limit in [1,100], page >= 1
invalidQuery(limit, pageNo) == limit < 1 \/ limit > MaxLimit \/ pageNo < 1

\* the count conditions of GET /api/leaderboard
pageCountConditions(region, gameMode, onlineOnly) ==
    [region |-> IF Truthy(region) /\ region # "GLOBAL" THEN region ELSE None,
     currentGameMode |-> IF Truthy(gameMode) THEN gameMode ELSE None,
     isOnline |-> IF onlineOnly THEN "true" ELSE None]

\* Math.ceil(totalPlayers / limit)
ceilDiv(a, b) == (a + b - 1) \div b

\* GET /api/leaderboard: the responses the handler may send
pageResponses(limit, pageNo, region, gameMode, onlineOnly) ==
    IF invalidQuery(limit, pageNo)
    THEN {[status |-> 400]}
    ELSE
        LET skip == (pageNo - 1) * limit
            totalPlayers ==
                Cardinality(find(pageCountConditions(region, gameMode, onlineOnly)))
            totalPages == ceilDiv(totalPlayers, limit)
        IN  {[status |-> 200,
              leaderboard |-> [i \in 1..Len(l) |->
                                 [rank |-> skip + i, playerId |-> l[i]]],
              totalPlayers |-> totalPlayers,
              totalPages |-> totalPages,
              hasNextPage |-> pageNo < totalPages,
              hasPreviousPage |-> pageNo > 1] :
                l \in getLeaderboard(limit, skip, region, gameMode, onlineOnly)}

GetPage(limits, pages, filters) ==
    \E limit \in limits, pageNo \in pages, f \in filters, onlineOnly \in BOOLEAN :
        \E body \in pageResponses(limit, pageNo, f[1], f[2], onlineOnly) :
            /\ resp = NoResp
            /\ resp' = [op |-> "page", limit |-> limit, page |-> pageNo,
                        region |-> f[1], gameMode |-> f[2],
                        onlineOnly |-> onlineOnly, body |-> body]
            /\ UNCHANGED <<players, now, beyondBoard>>

\* the match conditions of GET /api/leaderboard/stats
statsConditions(region, gameMode) ==
    [region |-> IF Truthy(region) /\ region # "GLOBAL" THEN region ELSE None,
     currentGameMode |-> IF Truthy(gameMode) THEN gameMode ELSE None,
     isOnline |-> None]

RECURSIVE sumScores(_)
sumScores(S) ==
    IF S = {} THEN 0
    ELSE LET q == CHOOSE x \in S : TRUE
         IN  players[q].currentScore + sumScores(S \ {q})

\* Math.round(sum / n) for n > 0: halves round up
roundDiv(sum, n) == (2 * sum + n) \div (2 * n)

\* GET /api/leaderboard/stats
statsResponse(region, gameMode) ==
    LET mc == statsConditions(region, gameMode)
        M == find(mc)
        totalPlayers == Cardinality(M)
    IN  [status |-> 200,
         total |-> totalPlayers,
         online |-> Cardinality({q \in M : players[q].isOnline}),
         average |-> IF M = {} THEN 0 ELSE roundDiv(sumScores(M), totalPlayers),
         highest |-> IF M = {} THEN 0
                     ELSE CHOOSE x \in Scores :
                            /\ \E q \in M : players[q].currentScore = x
                            /\ \A q \in M : players[q].currentScore <= x,
         lowest |-> IF M = {} THEN 0
                    ELSE CHOOSE x \in Scores :
                            /\ \E q \in M : players[q].currentScore = x
                            /\ \A q \in M : players[q].currentScore >= x,
         byRegion |-> {[region |-> r,
                        playerCount |-> Cardinality({q \in M : players[q].region = r})] :
                            r \in {players[q].region : q \in M}},
         byGameMode |-> {[gameMode |-> m,
                          playerCount |-> Cardinality({q \in M :
                                            players[q].currentGameMode = m})] :
                            m \in {players[q].currentGameMode : q \in M}}]

GetStats(filters) ==
    \E f \in filters :
        /\ resp = NoResp
        /\ resp' = [op |-> "stats", region |-> f[1], gameMode |-> f[2],
                    body |-> statsResponse(f[1], f[2])]
        /\ UNCHANGED <<players, now, beyondBoard>>

\* ------------------------------------------------------------ region GLOBAL
GlobalFilters == {None, "GLOBAL"} \X {None, "blitz"}
GlobalCounts == {1, 2}

NextGlobal ==
    \/ Deliver
    \/ CreatePlayer({"p1", "p2"}, TwoProfiles)
    \/ ScoreWrite({None})
    \/ StatusWrite
    \/ GetTop(GlobalCounts, GlobalFilters)
    \/ GetPage(GlobalCounts, GlobalCounts, GlobalFilters)
    \/ GetPlayerRank(GlobalFilters)
    \/ GetStats(GlobalFilters)

SpecGlobal == Init /\ [][NextGlobal]_vars

\* the players of every region that a game mode / online-only filter keeps
allRegions(gameMode, onlineOnly) ==
    {q \in Existing :
        /\ (gameMode = None \/ players[q].currentGameMode = gameMode)
        /\ (onlineOnly => players[q].isOnline)}

beyondCalls == <<now, resp, session, joins, limiter, registry>>

\* const updatedPlayer = await Player.updatePlayerScore(...)
ScoreUpdate_write(r) ==
    \E p \in PlayerIds, score \in Scores :
        /\ calls[r].pc = "idle"
        /\ IF ~players[p].exists
           THEN /\ calls' = [calls EXCEPT ![r] =
                        [pc |-> "done", playerId |-> p, score |-> score,
                         status |-> 404]]
                /\ UNCHANGED players
           ELSE /\ gamesRoom(p)
                /\ players' = Player_updatePlayerScore(p, score, None)
                /\ calls' = [calls EXCEPT ![r] =
                        [pc |-> "findOne", playerId |-> p, score |-> score,
                         region |-> players'[p].region,
                         gameMode |-> players'[p].currentGameMode,
                         currentScore |-> players'[p].currentScore,
                         totalGamesPlayed |-> players'[p].totalGamesPlayed]]
        /\ UNCHANGED beyondCalls

\* getPlayerRank: const player = await this.findOne({ playerId })
ScoreUpdate_findOne(r) ==
    /\ calls[r].pc = "findOne"
    /\ calls' = [calls EXCEPT ![r] =
            [pc |-> "count", playerId |-> @.playerId, score |-> @.score,
             region |-> @.region, gameMode |-> @.gameMode,
             currentScore |-> @.currentScore,
             totalGamesPlayed |-> @.totalGamesPlayed,
             foundScore |-> players[@.playerId].currentScore]]
    /\ UNCHANGED <<players, beyondCalls>>

\* getPlayerRank: playersAhead = await this.countDocuments(...); the
\* response is built from updatedPlayer and the rank
ScoreUpdate_count(r) ==
    /\ calls[r].pc = "count"
    /\ calls' = [calls EXCEPT ![r] =
            [pc |-> "done", playerId |-> @.playerId, score |-> @.score,
             status |-> 200,
             region |-> @.region, gameMode |-> @.gameMode,
             currentScore |-> @.currentScore,
             totalGamesPlayed |-> @.totalGamesPlayed,
             newRank |-> countAhead(@.foundScore,
                                    rankConditions(@.region, @.gameMode)) + 1]]
    /\ UNCHANGED <<players, beyondCalls>>

\* res.status(...).json(...)
ScoreUpdate_respond(r) ==
    /\ calls[r].pc = "done"
    /\ calls' = [calls EXCEPT ![r] = Idle]
    /\ UNCHANGED <<players, beyondCalls>>

NextScore ==
    \/ CreatePlayer({"p1", "p2"}, {<<"NA", "classic">>})
    \/ \E r \in ReqIds : ScoreUpdate_write(r)
    \/ \E r \in ReqIds : ScoreUpdate_findOne(r)
    \/ \E r \in ReqIds : ScoreUpdate_count(r)
    \/ \E r \in ReqIds : ScoreUpdate_respond(r)

SpecScore == Init /\ [][NextScore]_vars

\* C6: the rank in the response of a score update that stored newScore is
\* 1 + the number of other players in the player's (region, gameMode)
\* whose stored score is strictly greater than newScore, whatever other
\* score updates run in between.
C6_RankOfNewScore ==
    [][\A r \in ReqIds :
          (calls[r].pc = "count" /\ calls'[r].pc = "done") =>
              calls'[r].newRank =
                  1 + Cardinality({q \in PlayerIds \ {calls[r].playerId} :
                        /\ inFilter(q, calls[r].region, calls[r].gameMode)
                        /\ players[q].currentScore > calls[r].score})]_vars

\* ------------------------------------------------------------ GameSession model
\* One session document. players is the participant array in order,
\* events is realTimeEvents in order (event type and player id).

\* what the session handlers leave alone
beyondSession == <<calls, limiter, registry>>

participantIds(doc) == {doc.players[i].playerId : i \in 1..Len(doc.players)}

\* players.findIndex(p => p.playerId === playerId), 0 when there is none
findIndex(ps, playerId) ==
    IF \E i \in 1..Len(ps) : ps[i].playerId = playerId
    THEN CHOOSE i \in 1..Len(ps) :
            /\ ps[i].playerId = playerId
            /\ \A j \in 1..(i - 1) : ps[j].playerId # playerId
    ELSE 0

\* gameSessionSchema.pre('save'): !this.duration holds for null and for 0
preSave(doc) ==
    IF doc.status = "completed" /\ doc.startedAt # Null
            /\ (doc.duration = Null \/ doc.duration = 0)
    THEN [doc EXCEPT !.duration = now - doc.startedAt, !.endedAt = now]
    ELSE doc

\* GameSession.createSession
createSession(gameMode, region, maxPlayers) ==
    [exists |-> TRUE, status |-> "waiting", players |-> <<>>,
     gameMode |-> gameMode, region |-> region, maxPlayers |-> maxPlayers,
     startedAt |-> Null, endedAt |-> Null, duration |-> Null,
     events |-> <<>>]

\* the findOne of joinSession: status in ['waiting', 'active']
joinable(doc) == doc.exists /\ doc.status \in {"waiting", "active"}

\* joinSession that looks for the player among the active entries only
joinDecision_activeOnly(doc, playerId, initialScore) ==
    IF Len(doc.players) >= doc.maxPlayers
    THEN [result |-> "full", pushPlayers |-> <<>>, pushEvents |-> <<>>,
          activate |-> FALSE]
    ELSE IF \E i \in 1..Len(doc.players) :
              doc.players[i].playerId = playerId /\ doc.players[i].isActive
    THEN [result |-> "already", pushPlayers |-> <<>>, pushEvents |-> <<>>,
          activate |-> FALSE]
    ELSE LET activate == Len(doc.players) + 1 >= 2 /\ doc.status = "waiting"
         IN  [result |-> "joined",
              pushPlayers |-> <<[playerId |-> playerId,
                                 initialScore |-> initialScore,
                                 currentSessionScore |-> 0,
                                 position |-> Null,
                                 isActive |-> TRUE]>>,
              pushEvents |-> IF activate
                             THEN <<[eventType |-> "player_joined",
                                     playerId |-> playerId],
                                    [eventType |-> "game_start",
                                     playerId |-> None]>>
                             ELSE <<[eventType |-> "player_joined",
                                     playerId |-> playerId]>>,
              activate |-> activate]

\* joinSession after its findOne, on the loaded document: what it throws
\* or returns, and what it pushes and sets before save()
joinDecision(doc, playerId, initialScore) ==
    IF Len(doc.players) >= doc.maxPlayers
    THEN [result |-> "full", pushPlayers |-> <<>>, pushEvents |-> <<>>,
          activate |-> FALSE]
    ELSE IF \E i \in 1..Len(doc.players) : doc.players[i].playerId = playerId
    THEN [result |-> "already", pushPlayers |-> <<>>, pushEvents |-> <<>>,
          activate |-> FALSE]
    ELSE LET activate == Len(doc.players) + 1 >= 2 /\ doc.status = "waiting"
         IN  [result |-> "joined",
              pushPlayers |-> <<[playerId |-> playerId,
                                 initialScore |-> initialScore,
                                 currentSessionScore |-> 0,
                                 position |-> Null,
                                 isActive |-> TRUE]>>,
              pushEvents |-> IF activate
                             THEN <<[eventType |-> "player_joined",
                                     playerId |-> playerId],
                                    [eventType |-> "game_start",
                                     playerId |-> None]>>
                             ELSE <<[eventType |-> "player_joined",
                                     playerId |-> playerId]>>,
              activate |-> activate]

\* session.save() of joinSession: the pushes are appended to the stored
\* arrays and the paths the handler assigned are set
joinSave(stored, d) ==
    IF d.result # "joined" THEN stored
    ELSE [stored EXCEPT
            !.players = @ \o d.pushPlayers,
            !.events = @ \o d.pushEvents,
            !.status = IF d.activate THEN "active" ELSE @,
            !.startedAt = IF d.activate THEN now ELSE @]

\* the status of the response of POST /api/sessions/:sessionId/join
joinStatus(result) ==
    CASE result = "full" -> 409
      [] result = "notJoinable" -> 404
      [] OTHER -> 200

\* gameSessionSchema.methods.removePlayer, before save()
removePlayer(doc, playerId) ==
    LET i == findIndex(doc.players, playerId)
    IN  IF i = 0 THEN doc
        ELSE LET ps == [doc.players EXCEPT ![i].isActive = FALSE]
                 left == [doc EXCEPT
                            !.players = ps,
                            !.events = @ \o <<[eventType |-> "player_left",
                                               playerId |-> playerId]>>]
             IN  IF \A j \in 1..Len(ps) : ~ps[j].isActive
                 THEN [left EXCEPT !.status = "abandoned", !.endedAt = now]
                 ELSE left

\* GameSession.updatePlayerScore adding the score to the entry's score
GameSession_updatePlayerScore_additive(doc, playerId, score) ==
    [doc EXCEPT
        !.players[findIndex(doc.players, playerId)].currentSessionScore = @ + score,
        !.events = @ \o <<[eventType |-> "score_update", playerId |-> playerId]>>]

\* GameSession.updatePlayerScore, before save(), on a session that is
\* active and holds the player
GameSession_updatePlayerScore(doc, playerId, score) ==
    [doc EXCEPT
        !.players[findIndex(doc.players, playerId)].currentSessionScore = score,
        !.events = @ \o <<[eventType |-> "score_update", playerId |-> playerId]>>]

\* the place of entry i in [...players].sort((a, b) => b.score - a.score),
\* a stable sort
sortedPlace(ps, i) ==
    1 + Cardinality({j \in 1..Len(ps) :
            \/ ps[j].currentSessionScore > ps[i].currentSessionScore
            \/ /\ ps[j].currentSessionScore = ps[i].currentSessionScore
               /\ j < i})

\* sortedPlayers.forEach((player, index) => { players[findIndex(...)]
\* .position = index + 1 }): an entry is given the last place whose player
\* id finds it
finalPositions(ps) ==
    [i \in 1..Len(ps) |->
        LET places == {sortedPlace(ps, j) : j \in
                        {k \in 1..Len(ps) : findIndex(ps, ps[k].playerId) = i}}
        IN  IF places = {} THEN ps[i]
            ELSE [ps[i] EXCEPT !.position =
                    CHOOSE x \in places : \A y \in places : y <= x]]

\* GameSession.endSession, before save(), on an active session
endSession(doc) ==
    [doc EXCEPT
        !.status = "completed",
        !.endedAt = now,
        !.players = finalPositions(doc.players),
        !.events = @ \o <<[eventType |-> "game_end", playerId |-> None]>>]

\* calculatePositionBonus growing with the position
calculatePositionBonus_ascending(position, totalPlayers) ==
    IF totalPlayers < 2 THEN 0
    ELSE (2 * 100 * position + totalPlayers) \div (2 * totalPlayers)

\* calculatePositionBonus
calculatePositionBonus(position, totalPlayers) ==
    IF totalPlayers < 2 THEN 0
    ELSE (2 * 100 * (totalPlayers - position + 1) + totalPlayers)
            \div (2 * totalPlayers)

\* ------------------------------------------------------------ session routes
\* One session id is followed. In these handlers a request runs to its
\* response before the next one starts.

\* the event log has room for n more events
eventsRoom(n) ==
    IF session.exists THEN Len(session.events) + n <= MaxEvents ELSE TRUE

\* POST /api/sessions
CreateSession(sizes) ==
    \E m \in sizes :
        /\ resp = NoResp
        /\ ~session.exists
        /\ session' = preSave(createSession("classic", "NA", m))
        /\ resp' = [op |-> "create", status |-> 201]
        /\ UNCHANGED <<players, now, joins, beyondSession>>

\* POST /api/sessions/:sessionId/join
Join(ids) ==
    \E p \in ids :
        /\ resp = NoResp
        /\ eventsRoom(2)
        /\ IF ~players[p].exists
           THEN /\ resp' = [op |-> "join", playerId |-> p, status |-> 404,
                            error |-> "PLAYER_NOT_FOUND"]
                /\ UNCHANGED session
           ELSE IF ~joinable(session)
           THEN /\ resp' = [op |-> "join", playerId |-> p,
                            status |-> joinStatus("notJoinable"),
                            error |-> "SESSION_NOT_JOINABLE"]
                /\ UNCHANGED session
           ELSE LET d == joinDecision(session, p, players[p].currentScore)
                IN  /\ session' = IF d.result = "joined"
                                  THEN preSave(joinSave(session, d))
                                  ELSE session
                    /\ resp' = [op |-> "join", playerId |-> p,
                                status |-> joinStatus(d.result),
                                error |-> IF d.result = "full"
                                          THEN "SESSION_FULL" ELSE None]
        /\ UNCHANGED <<players, now, joins, beyondSession>>

\* POST /api/sessions/:sessionId/leave
Leave(ids) ==
    \E p \in ids :
        /\ resp = NoResp
        /\ eventsRoom(1)
        /\ IF ~session.exists
           THEN /\ resp' = [op |-> "leave", playerId |-> p, status |-> 404]
                /\ UNCHANGED session
           ELSE /\ session' = preSave(removePlayer(session, p))
                /\ resp' = [op |-> "leave", playerId |-> p, status |-> 200]
        /\ UNCHANGED <<players, now, joins, beyondSession>>

\* A session score update: GameSession.updatePlayerScore, then
\* Player.updatePlayerScore, as the score:update socket handler issues them
\* for a message with a sessionId and no gameMode. status 200 stands for
\* the update going through, 404 for the 'not found' error thrown by
\* GameSession.updatePlayerScore. (The validation of POST
\* /api/sessions/:sessionId/score strips playerId from the body, so that
\* route answers 400 before it reaches these calls.)
SessionScore(ids, scores) ==
    \E p \in ids, s \in scores :
        /\ resp = NoResp
        /\ gamesRoom(p)
        /\ eventsRoom(1)
        /\ IF session.exists /\ session.status = "active"
                /\ p \in participantIds(session)
           THEN /\ session' = preSave(GameSession_updatePlayerScore(session, p, s))
                /\ players' = IF players[p].exists
                              THEN Player_updatePlayerScore(p, s, None)
                              ELSE players
                /\ resp' = [op |-> "score", playerId |-> p, score |-> s,
                            status |-> 200]
           ELSE /\ resp' = [op |-> "score", playerId |-> p, score |-> s,
                            status |-> 404]
                /\ UNCHANGED <<session, players>>
        /\ UNCHANGED <<now, joins, beyondSession>>

\* the store after the end route's Player.updatePlayerScore calls, one for
\* each active entry of the ended session
endWriteBack(ended) ==
    [q \in PlayerIds |->
        LET i == findIndex(ended.players, q)
        IN  IF i # 0 /\ ended.players[i].isActive /\ players[q].exists
            THEN [players[q] EXCEPT
                    !.currentScore = ended.players[i].currentSessionScore
                        + calculatePositionBonus(ended.players[i].position,
                                                 Len(ended.players)),
                    !.totalGamesPlayed = @ + 1,
                    !.lastActiveAt = now,
                    !.currentGameMode = ended.gameMode]
            ELSE players[q]]

\* POST /api/sessions/:sessionId/end
End ==
    /\ resp = NoResp
    /\ eventsRoom(1)
    /\ \A q \in PlayerIds : gamesRoom(q)
    /\ IF session.exists /\ session.status = "active"
       THEN LET ended == preSave(endSession(session))
            IN  /\ session' = ended
                /\ players' = endWriteBack(ended)
                /\ resp' = [op |-> "end", status |-> 200,
                            duration |-> ended.duration,
                            endedAt |-> ended.endedAt]
       ELSE /\ resp' = [op |-> "end", status |-> 404]
            /\ UNCHANGED <<session, players>>
    /\ UNCHANGED <<now, joins, beyondSession>>

SessionPlayers == {"p1", "p2"}

NextSession ==
    \/ Deliver
    \/ Tick
    \/ CreatePlayer(SessionPlayers, {<<"NA", "classic">>})
    \/ CreateSession({2, 3})
    \/ Join(SessionPlayers)
    \/ Leave(SessionPlayers)
    \/ SessionScore(SessionPlayers, Scores)
    \/ End

SpecSession == Init /\ [][NextSession]_vars

\* the edges the status of a session may take
StatusEdges ==
    {<<"waiting", "active">>, <<"active", "completed">>,
     <<"waiting", "abandoned">>, <<"active", "abandoned">>}

\* C7: the status of a session changes only along waiting->active,
\* active->completed, waiting->abandoned and active->abandoned; in
\* particular a completed session keeps its status under every operation.
C7_StatusEdges ==
    [][session.exists =>
          \/ session'.status = session.status
          \/ <<session.status, session'.status>> \in StatusEdges]_vars

\* end(session) has completed on the document
hasEnded(doc) ==
    doc.exists /\ \E i \in 1..Len(doc.events) : doc.events[i].eventType = "game_end"

\* C8: once end(session) has completed, duration is endedAt - startedAt and
\* no later operation on the session changes endedAt or duration.
C8_EndedOnce ==
    /\ [](hasEnded(session) =>
            session.duration = session.endedAt - session.startedAt)
    /\ [][hasEnded(session) =>
            /\ session'.endedAt = session.endedAt
            /\ session'.duration = session.duration]_vars

\* C10: a join of a player who is already a participant of a waiting or
\* active session, whatever the participant count, succeeds and leaves the
\* session (participants, status, event log) as it was.
C10_RejoinIsNoOp ==
    [][\A p \in PlayerIds :
          (/\ resp = NoResp
           /\ resp'.op = "join"
           /\ resp'.playerId = p
           /\ joinable(session)
           /\ p \in participantIds(session))
          => (resp'.status = 200 /\ session' = session)]_vars

\* ------------------------------------------------------------ interleaved joins
\* The join request as its awaits cut it: Player.findOne, then the findOne
\* of joinSession (the checks and pushes that follow it run without
\* yielding), then save(). Request r joins player p.

beyondJoins == <<now, calls, limiter, registry>>

\* const player = await Player.findOne({ playerId })
Join_findPlayer(r, p) ==
    /\ joins[r].pc = "idle"
    /\ IF players[p].exists
       THEN joins' = [joins EXCEPT ![r] =
                [pc |-> "findSession", playerId |-> p,
                 currentScore |-> players[p].currentScore]]
       ELSE UNCHANGED joins
    /\ UNCHANGED <<players, session, resp, beyondJoins>>

\* const session = await this.findOne(...) and the code up to save()
Join_findSession(r) ==
    /\ joins[r].pc = "findSession"
    /\ IF ~joinable(session)
       THEN joins' = [joins EXCEPT ![r] = Idle]
       ELSE LET d == joinDecision(session, joins[r].playerId,
                                  joins[r].currentScore)
            IN  joins' = [joins EXCEPT ![r] =
                    IF d.result = "joined"
                    THEN [pc |-> "save", playerId |-> joins[r].playerId, d |-> d]
                    ELSE Idle]
    /\ UNCHANGED <<players, session, resp, beyondJoins>>

\* return await session.save(): the update carries the pushes and the
\* assigned paths, and finds the document by _id alone
Join_save(r) ==
    /\ joins[r].pc = "save"
    /\ session' = joinSave(session, joins[r].d)
    /\ joins' = [joins EXCEPT ![r] = Idle]
    /\ UNCHANGED <<players, resp, beyondJoins>>

NextJoins ==
    \/ Deliver
    \/ CreatePlayer(SessionPlayers, {<<"NA", "classic">>})
    \/ CreateSession({1, 2, 3})
    \/ Join_findPlayer("r1", "p1")
    \/ Join_findPlayer("r2", "p2")
    \/ \E r \in ReqIds : Join_findSession(r)
    \/ \E r \in ReqIds : Join_save(r)
    \/ End

SpecJoins == Init /\ [][NextJoins]_vars

\* C9: a waiting session has fewer than 2 participants, also under
\* interleaved joins, and a completed session is never set active again.
C9_WaitingBelowTwo ==
    /\ []((session.exists /\ session.status = "waiting") =>
            Len(session.players) < 2)
    /\ [][(session.exists /\ session.status = "completed") =>
            session'.status # "active"]_vars

\* C11: the participant count of a session never exceeds maxPlayers and no
\* player id appears twice in the participant list, also under interleaved
\* joins.
C11_WithinCapacity ==
    session.exists =>
        /\ Len(session.players) <= session.maxPlayers
        /\ \A i, j \in 1..Len(session.players) :
              session.players[i].playerId = session.players[j].playerId => i = j

\* ------------------------------------------------------------ interleaved leaves
\* The leave request as its awaits cut it: GameSession.findOne, then
\* removePlayer up to its save() (no yield in between), then the save.

\* one participant entry after a save that changed it in memory from
\* `was` to `is`: only the fields that were assigned are sent
savedEntry(storedEntry, was, is) ==
    [storedEntry EXCEPT
        !.isActive = IF is.isActive # was.isActive THEN is.isActive ELSE @,
        !.currentSessionScore =
            IF is.currentSessionScore # was.currentSessionScore
            THEN is.currentSessionScore ELSE @,
        !.position = IF is.position # was.position THEN is.position ELSE @]

\* document.save() of a session loaded as `loaded` and changed in memory to
\* `m` without a push to players: the assigned paths are set on the stored
\* document, the pushed events are appended to it
saveDelta(stored, loaded, m) ==
    [stored EXCEPT
        !.players = [i \in 1..Len(stored.players) |->
                        IF i <= Len(loaded.players)
                        THEN savedEntry(stored.players[i], loaded.players[i],
                                        m.players[i])
                        ELSE stored.players[i]],
        !.events = @ \o SubSeq(m.events, Len(loaded.events) + 1, Len(m.events)),
        !.status = IF m.status # loaded.status THEN m.status ELSE @,
        !.endedAt = IF m.endedAt # loaded.endedAt THEN m.endedAt ELSE @,
        !.duration = IF m.duration # loaded.duration THEN m.duration ELSE @]

\* const session = await GameSession.findOne({ sessionId }), then
\* session.removePlayer(playerId) up to the save
Leave_findOne(r, p) ==
    /\ joins[r].pc = "idle"
    /\ session.exists
    /\ eventsRoom(1)
    /\ joins' = [joins EXCEPT ![r] =
            [pc |-> "leaveSave", playerId |-> p, loaded |-> session,
             m |-> preSave(removePlayer(session, p))]]
    /\ UNCHANGED <<players, session, resp, beyondJoins>>

\* return this.save() of removePlayer
Leave_save(r) ==
    /\ joins[r].pc = "leaveSave"
    /\ Len(session.events) + 1 <= MaxEvents
    /\ session' = saveDelta(session, joins[r].loaded, joins[r].m)
    /\ joins' = [joins EXCEPT ![r] = Idle]
    /\ UNCHANGED <<players, resp, beyondJoins>>

NextLeaves ==
    \/ Deliver
    \/ CreatePlayer(SessionPlayers, {<<"NA", "classic">>})
    \/ CreateSession({2})
    \/ Join(SessionPlayers)
    \/ \E r \in ReqIds, p \in SessionPlayers : Leave_findOne(r, p)
    \/ \E r \in ReqIds : Leave_save(r)

SpecLeaves == Init /\ [][NextLeaves]_vars

\* C12: a leave keeps the participant entry (marking it inactive) and
\* appends a leave event, and a waiting or active session that has
\* participants has at least one active participant, also when the last
\* leaves are handled concurrently.
C12_SomeoneActive ==
    /\ [][session.exists => Len(session'.players) >= Len(session.players)]_vars
    /\ []((/\ session.exists
           /\ session.status \in {"waiting", "active"}
           /\ Len(session.players) > 0)
          => \E i \in 1..Len(session.players) : session.players[i].isActive)

\* C13: a session score update for p on an active session holding p sets
\* p's in-session score to exactly the given score, changes nothing else of
\* the session and appends exactly one score event; on a session that is
\* not active or does not hold p it fails with NotFound and leaves the
\* session and its event log unchanged.
C13_ScoreOverwrites ==
    [][\A p \in PlayerIds :
          (resp = NoResp /\ resp'.op = "score" /\ resp'.playerId = p) =>
            IF session.exists /\ session.status = "active"
                    /\ p \in participantIds(session)
            THEN /\ resp'.status = 200
                 /\ session' = [session EXCEPT
                        !.players[findIndex(session.players, p)]
                            .currentSessionScore = resp'.score,
                        !.events = @ \o <<[eventType |-> "score_update",
                                           playerId |-> p]>>]
            ELSE /\ resp'.status = 404
                 /\ session' = session]_vars

\* a second score update of the same player has gone through and the
\* entry holds its score
C13_Witness ==
    /\ resp.op = "score"
    /\ resp.status = 200
    /\ resp.score = 1
    /\ session.players[findIndex(session.players, resp.playerId)]
            .currentSessionScore = 1
    /\ Cardinality({i \in 1..Len(session.events) :
            /\ session.events[i].eventType = "score_update"
            /\ session.events[i].playerId = resp.playerId}) >= 2

\* the entries of a session that are active
activeEntries(doc) == {i \in 1..Len(doc.players) : doc.players[i].isActive}

\* C14: end on an active session with K active participants gives exactly
\* those K participants the positions 1..K, each once, in order of
\* descending in-session score, whatever the mix of active and left
\* participants.
C14_PositionsOfActive ==
    (resp.op = "end" /\ resp.status = 200) =>
        LET act == activeEntries(session)
        IN  /\ {session.players[i].position : i \in act} = 1..Cardinality(act)
            /\ \A i, j \in act :
                  /\ session.players[i].position = session.players[j].position
                        => i = j
                  /\ session.players[i].currentSessionScore
                        > session.players[j].currentSessionScore
                        => session.players[i].position
                            < session.players[j].position

\* ------------------------------------------------------------ end with three players
NextEnd ==
    \/ Deliver
    \/ CreatePlayer(PlayerIds, {<<"NA", "classic">>})
    \/ CreateSession({3})
    \/ Join(PlayerIds)
    \/ Leave({"p1"})
    \/ SessionScore({"p2", "p3"}, Scores)
    \/ End

SpecEnd == Init /\ [][NextEnd]_vars

\* b is 100 * k / n rounded to the nearest integer, halves upwards
isRounded(b, k, n) ==
    /\ 2 * n * b <= 2 * 100 * k + n
    /\ 2 * 100 * k + n < 2 * n * b + 2 * n

SweepInterval == 300
\* inactiveThreshold, in seconds (10 * 60 * 1000 ms)
InactiveThreshold == 600

\* ------------------------------------------------------------ rate limiter
\* the sliding window, in seconds (60 * 1000 ms)
RateWindow == 60

\* playerUpdates.filter(timestamp => timestamp > minuteAgo)
RECURSIVE filterRecent(_, _)
filterRecent(timestamps, minuteAgo) ==
    IF timestamps = <<>> THEN <<>>
    ELSE IF Head(timestamps) > minuteAgo
         THEN <<Head(timestamps)>> \o filterRecent(Tail(timestamps), minuteAgo)
         ELSE filterRecent(Tail(timestamps), minuteAgo)

\* validateScoreUpdateRate that also keeps the time of a rejected attempt
validateScoreUpdateRate_countsRejected(playerId, maxUpdatesPerMinute) ==
    LET minuteAgo == now - RateWindow
        playerUpdates == IF has(rateLimit, playerId)
                         THEN rateLimit[playerId] ELSE <<>>
        recentUpdates == filterRecent(playerUpdates, minuteAgo)
    IN  IF Len(recentUpdates) >= maxUpdatesPerMinute
        THEN [allowed |-> FALSE, remaining |-> 0,
              resetTime |-> recentUpdates[1] + RateWindow - now,
              map |-> set(rateLimit, playerId, Append(recentUpdates, now))]
        ELSE [allowed |-> TRUE,
              remaining |-> maxUpdatesPerMinute - (Len(recentUpdates) + 1),
              resetTime |-> RateWindow,
              map |-> set(rateLimit, playerId, Append(recentUpdates, now))]

\* validateScoreUpdateRate(playerId, maxUpdatesPerMinute): its result and
\* the map it leaves
validateScoreUpdateRate(playerId, maxUpdatesPerMinute) ==
    LET minuteAgo == now - RateWindow
        playerUpdates == IF has(rateLimit, playerId)
                         THEN rateLimit[playerId] ELSE <<>>
        recentUpdates == filterRecent(playerUpdates, minuteAgo)
    IN  IF Len(recentUpdates) >= maxUpdatesPerMinute
        THEN [allowed |-> FALSE, remaining |-> 0,
              resetTime |-> recentUpdates[1] + RateWindow - now,
              map |-> set(rateLimit, playerId, recentUpdates)]
        ELSE [allowed |-> TRUE,
              remaining |-> maxUpdatesPerMinute - (Len(recentUpdates) + 1),
              resetTime |-> RateWindow,
              map |-> set(rateLimit, playerId, Append(recentUpdates, now))]

\* a score-update attempt of a player reaches the rate check, with the cap
\* its caller passes
RateAttempt(ids, caps) ==
    \E p \in ids, cap \in caps :
        /\ Len(attempts) < MaxAttempts
        /\ LET r == validateScoreUpdateRate(p, cap)
           IN  /\ rateLimit' = r.map
               /\ attempts' = Append(attempts,
                    [playerId |-> p, at |-> now, cap |-> cap,
                     allowed |-> r.allowed, remaining |-> r.remaining,
                     resetTime |-> r.resetTime])
        /\ UNCHANGED <<players, now, resp, calls, session, joins, registry>>

\* time passes: Date.now() moves on to one of the given times
Advance(times) ==
    \E t \in times :
        /\ t > now
        /\ t <= lastSweep + SweepInterval
        /\ now' = t
        /\ UNCHANGED <<players, resp, calls, session, joins, limiter, registry>>

\* the times at which attempts are made, in seconds
RateTimes == {1, 59, 60, 61, 120}

NextRate ==
    \/ RateAttempt({"p1", "p2"}, {2})
    \/ Advance(RateTimes)

SpecRate == Init /\ [][NextRate]_vars

\* the accepted attempts of the player of attempt i that precede it and lie
\* less than a window before it
acceptedInWindow(i) ==
    {j \in 1..(i - 1) :
        /\ attempts[j].playerId = attempts[i].playerId
        /\ attempts[j].allowed
        /\ attempts[j].at > attempts[i].at - RateWindow}

\* C16: an attempt is accepted exactly when fewer than its cap M accepted
\* attempts of the same player lie within the 60 seconds before it; so the
\* (M+1)-th attempt of a window is rejected, rejected attempts do not
\* count, and an attempt made once the oldest counted one has aged out is
\* accepted.
C16_SlidingWindow ==
    \A i \in 1..Len(attempts) :
        attempts[i].allowed <=>
            Cardinality(acceptedInWindow(i)) < attempts[i].cap

\* an attempt was accepted after an earlier one of the player was rejected
\* and after the accepted attempt that filled the window had aged out
C16_Witness ==
    \E i \in 1..Len(attempts) :
        /\ attempts[i].allowed
        /\ \E j \in 1..(i - 1) :
              /\ attempts[j].playerId = attempts[i].playerId
              /\ ~attempts[j].allowed
              /\ attempts[j].cap = attempts[i].cap
              /\ attempts[j].at > attempts[i].at - RateWindow
              /\ \E k \in 1..(j - 1) :
                    /\ attempts[k].playerId = attempts[i].playerId
                    /\ attempts[k].allowed
                    /\ attempts[k].at <= attempts[i].at - RateWindow
                    /\ attempts[k].at > attempts[j].at - RateWindow

\* ------------------------------------------------------------ SocketService
\* A room name is a tuple of its parts: <<"global">>, <<"region", r>>,
\* <<"gamemode", m>>, <<"region", r, "gamemode", m>>.

\* what the socket handlers below leave alone
beyondSockets == <<now, calls, session, joins, limiter, lastSweep>>

\* generateRoomNames with a room for the region GLOBAL as for any other
generateRoomNames_literalGlobal(region, gameMode) ==
    {<<"global">>}
        \cup (IF Truthy(region) THEN {<<"region", region>>} ELSE {})
        \cup (IF Truthy(gameMode) THEN {<<"gamemode", gameMode>>} ELSE {})
        \cup (IF Truthy(gameMode) /\ Truthy(region)
              THEN {<<"region", region, "gamemode", gameMode>>} ELSE {})

\* generateRoomNames(region, gameMode)
generateRoomNames(region, gameMode) ==
    {<<"global">>}
        \cup (IF Truthy(region) /\ region # "GLOBAL"
              THEN {<<"region", region>>} ELSE {})
        \cup (IF Truthy(gameMode) THEN {<<"gamemode", gameMode>>} ELSE {})
        \cup (IF Truthy(gameMode) /\ Truthy(region) /\ region # "GLOBAL"
              THEN {<<"region", region, "gamemode", gameMode>>} ELSE {})

\* an error the handler emits to its own socket, for the request it answers
errorEmit(s, request, playerId, type) ==
    [op |-> "emit", socket |-> s, event |-> "error", type |-> type,
     request |-> request, playerId |-> playerId, broadcast |-> {}]

\* a || b
orElse(a, b) == IF Truthy(a) THEN a ELSE b

\* io.on('connection'): a new socket, with one of the given ids
Connect(ids) ==
    \E s \in ids :
        /\ resp = NoResp
        /\ sockets[s].status = "new"
        /\ sockets' = [sockets EXCEPT ![s].status = "connected"]
        /\ UNCHANGED <<players, resp, connectedPlayers, socketToPlayer,
                       roomSubscriptions, handlers, beyondSockets>>

\* socketSchemas.joinRoom accepts every payload
joinRoomValid_any(region, gameMode) == TRUE

\* socketSchemas.joinRoom, for a payload whose playerId is a string: region
\* and gameMode are optional and come from fixed lists
joinRoomValid(region, gameMode) ==
    /\ region \in {None, "NA", "EU", "ASIA", "SA", "OCE", "GLOBAL"}
    /\ gameMode \in {None, "classic", "blitz", "survival", "team", "ranked"}

\* handlePlayerJoin up to its first await: player:join arrives with
\* (playerId, region, gameMode), is validated, and Player.findOne answers
PlayerJoin_findOne(ids, options) ==
    \E s \in SocketIds, p \in ids, o \in options :
        /\ resp = NoResp
        /\ sockets[s].status = "connected"
        /\ handlers[s].join = Idle
        /\ IF ~joinRoomValid(o[1], o[2])
           THEN /\ resp' = errorEmit(s, "player:join", p, "validation_error")
                /\ UNCHANGED handlers
           ELSE IF players[p].exists
           THEN /\ handlers' = [handlers EXCEPT ![s].join =
                        [pc |-> "online", playerId |-> p, doc |-> load(p),
                         region |-> orElse(o[1], players[p].region),
                         gameMode |-> orElse(o[2], players[p].currentGameMode)]]
                /\ UNCHANGED resp
           ELSE /\ resp' = errorEmit(s, "player:join", p, "player_not_found")
                /\ UNCHANGED handlers
        /\ UNCHANGED <<players, connectedPlayers, socketToPlayer,
                       roomSubscriptions, sockets, beyondSockets>>

\* await player.updateOnlineStatus(true)
PlayerJoin_online ==
    \E s \in SocketIds :
        /\ resp = NoResp
        /\ handlers[s].join.pc = "online"
        /\ players' = updateOnlineStatus(handlers[s].join.doc, TRUE)
        /\ handlers' = [handlers EXCEPT ![s].join.pc = "register"]
        /\ UNCHANGED <<resp, connectedPlayers, socketToPlayer,
                       roomSubscriptions, sockets, beyondSockets>>

\* the rest of handlePlayerJoin: the three maps, the rooms, the emits
PlayerJoin_register ==
    \E s \in SocketIds :
        /\ resp = NoResp
        /\ handlers[s].join.pc = "register"
        /\ LET h == handlers[s].join
               rooms == generateRoomNames(h.region, h.gameMode)
           IN  /\ connectedPlayers' = set(connectedPlayers, h.playerId,
                        [socketId |-> s, lastActivity |-> now,
                         region |-> h.region, gameMode |-> h.gameMode])
               /\ socketToPlayer' = set(socketToPlayer, s, h.playerId)
               /\ sockets' = [sockets EXCEPT ![s].rooms = @ \cup rooms]
               /\ roomSubscriptions' = set(roomSubscriptions, h.playerId, rooms)
               /\ resp' = [op |-> "emit", socket |-> s,
                           event |-> "player:joined", playerId |-> h.playerId,
                           rooms |-> rooms, broadcast |-> rooms]
        /\ handlers' = [handlers EXCEPT ![s].join = Idle]
        /\ UNCHANGED <<players, beyondSockets>>

\* handleLeaderboardSubscription
Subscribe(options) ==
    \E s \in SocketIds, o \in options :
        /\ resp = NoResp
        /\ sockets[s].status = "connected"
        /\ IF has(socketToPlayer, s)
           THEN LET playerId == socketToPlayer[s]
                    rooms == generateRoomNames(o[1], o[2])
                    currentRooms == IF has(roomSubscriptions, playerId)
                                    THEN roomSubscriptions[playerId] ELSE {}
                IN  /\ sockets' = [sockets EXCEPT ![s].rooms = @ \cup rooms]
                    /\ roomSubscriptions' = set(roomSubscriptions, playerId,
                                                currentRooms \cup rooms)
                    /\ resp' = [op |-> "emit", socket |-> s,
                                event |-> "leaderboard:subscribed",
                                request |-> "leaderboard:subscribe",
                                rooms |-> rooms, broadcast |-> {}]
           ELSE /\ resp' = [op |-> "emit", socket |-> s, event |-> "error",
                            type |-> "not_authenticated",
                            request |-> "leaderboard:subscribe",
                            broadcast |-> {}]
                /\ UNCHANGED <<sockets, roomSubscriptions>>
        /\ UNCHANGED <<players, connectedPlayers, socketToPlayer, handlers,
                       beyondSockets>>

\* handleLeaderboardUnsubscription; for a socket without a player it
\* returns and emits nothing (op "return")
Unsubscribe(options) ==
    \E s \in SocketIds, o \in options :
        /\ resp = NoResp
        /\ sockets[s].status = "connected"
        /\ IF has(socketToPlayer, s)
           THEN LET playerId == socketToPlayer[s]
                    roomsToLeave == generateRoomNames(o[1], o[2])
                    currentRooms == IF has(roomSubscriptions, playerId)
                                    THEN roomSubscriptions[playerId] ELSE {}
                IN  /\ sockets' = [sockets EXCEPT ![s].rooms = @ \ roomsToLeave]
                    /\ roomSubscriptions' = set(roomSubscriptions, playerId,
                                                currentRooms \ roomsToLeave)
                    /\ resp' = [op |-> "emit", socket |-> s,
                                event |-> "leaderboard:unsubscribed",
                                request |-> "leaderboard:unsubscribe",
                                playerId |-> playerId, region |-> o[1],
                                gameMode |-> o[2], rooms |-> roomsToLeave,
                                broadcast |-> {}]
           ELSE /\ resp' = [op |-> "return", socket |-> s,
                            request |-> "leaderboard:unsubscribe",
                            broadcast |-> {}]
                /\ UNCHANGED <<sockets, roomSubscriptions>>
        /\ UNCHANGED <<players, connectedPlayers, socketToPlayer, handlers,
                       beyondSockets>>

\* ------------------------------------------------------------ channels
\* the (region, gameMode) a player:join message may carry
JoinOptions == {<<None, None>>, <<"NA", "blitz">>, <<"GLOBAL", None>>}
\* the (region, gameMode) a subscription message may carry
ChannelOptions == {<<None, None>>} \cup (Regions \X GameModes)

NextChannels ==
    \/ Deliver
    \/ CreatePlayer({"p1"}, TwoProfiles)
    \/ Connect({"s1"})
    \/ PlayerJoin_findOne({"p1"}, JoinOptions)
    \/ PlayerJoin_online
    \/ PlayerJoin_register
    \/ Subscribe(ChannelOptions)
    \/ Unsubscribe(ChannelOptions)

SpecChannels == Init /\ [][NextChannels]_vars

\* the channels of a (region, gameMode): global always, the region's unless
\* it is GLOBAL, the mode's if there is one, the pair's if both hold
channelsOf(region, gameMode) ==
    {room \in {<<"global">>, <<"region", region>>, <<"gamemode", gameMode>>,
               <<"region", region, "gamemode", gameMode>>} :
        \/ room = <<"global">>
        \/ room = <<"region", region>> /\ region # None /\ region # "GLOBAL"
        \/ room = <<"gamemode", gameMode>> /\ gameMode # None
        \/ /\ room = <<"region", region, "gamemode", gameMode>>
           /\ region # None /\ region # "GLOBAL" /\ gameMode # None}

\* C18: right after a successful join the player's channel set is that of
\* the (region, gameMode) the connection was recorded with, and an
\* unsubscribe with a (region, gameMode) whose channels are the player's
\* channel set leaves that set empty.
C18_ChannelsRoundTrip ==
    /\ []((resp.op = "emit" /\ resp.event = "player:joined") =>
            /\ has(roomSubscriptions, resp.playerId)
            /\ has(connectedPlayers, resp.playerId)
            /\ roomSubscriptions[resp.playerId] =
                    channelsOf(connectedPlayers[resp.playerId].region,
                               connectedPlayers[resp.playerId].gameMode)
            /\ resp.rooms = roomSubscriptions[resp.playerId])
    /\ [][(/\ resp = NoResp
           /\ resp'.op = "emit"
           /\ resp'.event = "leaderboard:unsubscribed"
           /\ has(roomSubscriptions, resp'.playerId)
           /\ roomSubscriptions[resp'.playerId] =
                    channelsOf(resp'.region, resp'.gameMode))
          => roomSubscriptions'[resp'.playerId] = {}]_vars

\* an unsubscribe with the pair of the join has emptied a set of four
\* channels
C18_Witness ==
    /\ resp.op = "emit"
    /\ resp.event = "leaderboard:unsubscribed"
    /\ Cardinality(resp.rooms) = 4
    /\ has(connectedPlayers, resp.playerId)
    /\ connectedPlayers[resp.playerId].region = resp.region
    /\ connectedPlayers[resp.playerId].gameMode = resp.gameMode
    /\ roomSubscriptions[resp.playerId] = {}

\* ------------------------------------------------------------ disconnection
\* the sockets after the transports of the sockets in S have closed: a
\* closed socket has left its rooms and is gone from io.sockets.sockets
closeSockets(S) ==
    [s \in SocketIds |->
        IF s \in S THEN [status |-> "closed", rooms |-> {}] ELSE sockets[s]]

\* socket.on('disconnect') fires for the sockets in S: handleDisconnection
\* up to its first await. A socket without a player is only deleted from
\* socketToPlayer, where it is not.
startDisconnection(S) ==
    [s \in SocketIds |->
        IF s \in S /\ has(socketToPlayer, s)
        THEN [handlers[s] EXCEPT !.disc =
                [pc |-> "findOne", playerId |-> socketToPlayer[s]]]
        ELSE handlers[s]]

\* the client closes the connection or the transport is lost
Disconnect(ids) ==
    \E s \in ids :
        /\ resp = NoResp
        /\ sockets[s].status = "connected"
        /\ sockets' = closeSockets({s})
        /\ handlers' = startDisconnection({s})
        /\ UNCHANGED <<players, resp, connectedPlayers, socketToPlayer,
                       roomSubscriptions, beyondSockets>>

\* handleDisconnection from `Clean up connection data` on
purge(s, playerId) ==
    /\ connectedPlayers' = delete(connectedPlayers, playerId)
    /\ roomSubscriptions' = delete(roomSubscriptions, playerId)
    /\ socketToPlayer' = delete(socketToPlayer, s)

\* const player = await Player.findOne({ playerId })
Disconnection_findOne ==
    \E s \in SocketIds :
        /\ resp = NoResp
        /\ handlers[s].disc.pc = "findOne"
        /\ IF players[handlers[s].disc.playerId].exists
           THEN /\ handlers' = [handlers EXCEPT ![s].disc =
                        [pc |-> "offline", playerId |-> @.playerId,
                         doc |-> load(@.playerId)]]
                /\ UNCHANGED <<connectedPlayers, roomSubscriptions,
                               socketToPlayer>>
           ELSE /\ purge(s, handlers[s].disc.playerId)
                /\ handlers' = [handlers EXCEPT ![s].disc = Idle]
        /\ UNCHANGED <<players, resp, sockets, beyondSockets>>

\* await player.updateOnlineStatus(false)
Disconnection_offline ==
    \E s \in SocketIds :
        /\ resp = NoResp
        /\ handlers[s].disc.pc = "offline"
        /\ players' = updateOnlineStatus(handlers[s].disc.doc, FALSE)
        /\ handlers' = [handlers EXCEPT ![s].disc.pc = "purge"]
        /\ UNCHANGED <<resp, connectedPlayers, socketToPlayer,
                       roomSubscriptions, sockets, beyondSockets>>

\* the offline broadcast to the player's rooms, then the clean-up
Disconnection_purge ==
    \E s \in SocketIds :
        /\ resp = NoResp
        /\ handlers[s].disc.pc = "purge"
        /\ LET playerId == handlers[s].disc.playerId
           IN  /\ resp' = [op |-> "emit", socket |-> s,
                           event |-> "player:offline", playerId |-> playerId,
                           broadcast |-> IF has(roomSubscriptions, playerId)
                                         THEN roomSubscriptions[playerId]
                                         ELSE {}]
               /\ purge(s, playerId)
        /\ handlers' = [handlers EXCEPT ![s].disc = Idle]
        /\ UNCHANGED <<players, sockets, beyondSockets>>

\* the inactive players under a threshold of twice the length
inactivePlayers_lenient ==
    {p \in DOMAIN connectedPlayers :
        now - connectedPlayers[p].lastActivity > 2 * InactiveThreshold}

\* the players the cleanup interval finds inactive
inactivePlayers ==
    {p \in DOMAIN connectedPlayers :
        now - connectedPlayers[p].lastActivity > InactiveThreshold}

\* the callback of setupCleanupInterval: it fires every SweepInterval;
\* socket.disconnect(true) closes the transport and fires 'disconnect'
Sweep ==
    /\ resp = NoResp
    /\ now = lastSweep + SweepInterval
    /\ lastSweep' = now
    /\ LET found == {connectedPlayers[p].socketId : p \in inactivePlayers}
           open == {s \in found : sockets[s].status = "connected"}
       IN  /\ connectedPlayers' =
                [p \in DOMAIN connectedPlayers \ inactivePlayers |->
                    connectedPlayers[p]]
           /\ roomSubscriptions' =
                [p \in DOMAIN roomSubscriptions \ inactivePlayers |->
                    roomSubscriptions[p]]
           /\ sockets' = closeSockets(open)
           /\ handlers' = startDisconnection(open)
    /\ UNCHANGED <<players, now, resp, socketToPlayer, calls, session, joins,
                   limiter>>

NextDisconnect ==
    \/ Deliver
    \/ CreatePlayer({"p1"}, {<<"NA", "classic">>})
    \/ Connect(SocketIds)
    \/ PlayerJoin_findOne({"p1"}, {<<None, None>>})
    \/ PlayerJoin_online
    \/ PlayerJoin_register
    \/ Disconnect(SocketIds)
    \/ Disconnection_findOne
    \/ Disconnection_offline
    \/ Disconnection_purge

SpecDisconnect == Init /\ [][NextDisconnect]_vars

\* C20: once a connection has disconnected and every handler started for
\* it has finished, neither the connection->player map nor the
\* player->connection map refers to it, and no player bound to it alone
\* keeps a channel set.
C20_NoEntryAfterDisconnect ==
    \A s \in SocketIds :
        (sockets[s].status = "closed" /\ handlers[s] = NoHandlers) =>
            /\ ~has(socketToPlayer, s)
            /\ \A p \in DOMAIN connectedPlayers :
                  connectedPlayers[p].socketId # s

\* ------------------------------------------------------------ idle sweep
\* the times, in seconds, at which something happens
SweepTimes == {1, 300, 600, 900, 1200}

NextSweep ==
    \/ Deliver
    \/ CreatePlayer({"p1"}, {<<"NA", "classic">>})
    \/ Connect(SocketIds)
    \/ PlayerJoin_findOne({"p1"}, {<<None, None>>})
    \/ PlayerJoin_online
    \/ PlayerJoin_register
    \/ Disconnection_findOne
    \/ Disconnection_offline
    \/ Disconnection_purge
    \/ Advance(SweepTimes)
    \/ Sweep

SpecSweep == Init /\ [][NextSweep]_vars

\* C19: a sweep evicts every connection registered in the player->connection
\* map whose last activity is more than 10 minutes old: after the sweep
\* that map and the channel-set map do not hold the player and the
\* connection's transport is closed; with a sweep every 5 minutes no
\* connection stays in the map more than 15 minutes after its last
\* activity.
C19_IdleSweep ==
    /\ [][lastSweep' # lastSweep =>
            \A p \in DOMAIN connectedPlayers :
                now - connectedPlayers[p].lastActivity > InactiveThreshold =>
                    /\ ~has(connectedPlayers', p)
                    /\ ~has(roomSubscriptions', p)
                    /\ sockets'[connectedPlayers[p].socketId].status
                            # "connected"]_vars
    /\ [](\A p \in DOMAIN connectedPlayers :
            now - connectedPlayers[p].lastActivity
                <= InactiveThreshold + SweepInterval)

\* the sweep at 1200 s has just evicted a connection that joined at 300 s:
\* its transport is closed and its disconnect handler has started
C19_Witness ==
    /\ now = 1200
    /\ lastSweep = 1200
    /\ \E s \in SocketIds :
          /\ sockets[s].status = "closed"
          /\ handlers[s].disc.pc = "findOne"
          /\ players[handlers[s].disc.playerId].lastActiveAt = 300
          /\ ~has(connectedPlayers, handlers[s].disc.playerId)
          /\ ~has(roomSubscriptions, handlers[s].disc.playerId)

\* ------------------------------------------------------------ score and status events
\* the cap handleScoreUpdate passes to the rate check
MaxUpdatesPerMinute == 60

\* socketPlayerId !== playerId, socketPlayerId being
\* this.socketToPlayer.get(socket.id)
notOwner(s, playerId) == ~has(socketToPlayer, s) \/ socketToPlayer[s] # playerId

\* connectionInfo.lastActivity = Date.now(), and the game mode if one is
\* given, when the player has a connection entry
touch(playerId, gameMode) ==
    IF has(connectedPlayers, playerId)
    THEN [connectedPlayers EXCEPT
            ![playerId].lastActivity = now,
            ![playerId].gameMode = IF Truthy(gameMode) THEN gameMode ELSE @]
    ELSE connectedPlayers

\* this.roomSubscriptions.get(playerId) || new Set()
roomsOf(playerId) ==
    IF has(roomSubscriptions, playerId) THEN roomSubscriptions[playerId] ELSE {}

\* handleScoreUpdate up to its first await: score:update arrives on socket
\* s naming a player, with a score, maybe a session and a game mode; the
\* validation (score: Joi.number().min(0)), the rate check, then the
\* ownership check
ScoreEvent_check(ids, scores, sessionIds, modes) ==
    \E s \in SocketIds, p \in ids, sc \in scores, sid \in sessionIds, m \in modes :
        /\ resp = NoResp
        /\ sockets[s].status = "connected"
        /\ handlers[s].score = Idle
        /\ LET rateCheck == validateScoreUpdateRate(p, MaxUpdatesPerMinute)
           IN  IF sc < 0
               THEN /\ resp' = errorEmit(s, "score:update", p,
                                         "validation_error")
                    /\ UNCHANGED <<rateLimit, handlers>>
               ELSE IF ~rateCheck.allowed
               THEN /\ resp' = errorEmit(s, "score:update", p,
                                         "rate_limit_exceeded")
                    /\ rateLimit' = rateCheck.map
                    /\ UNCHANGED handlers
               ELSE IF notOwner(s, p)
               THEN /\ resp' = errorEmit(s, "score:update", p, "unauthorized")
                    /\ rateLimit' = rateCheck.map
                    /\ UNCHANGED handlers
               ELSE /\ handlers' = [handlers EXCEPT ![s].score =
                         [pc |-> IF Truthy(sid) THEN "session" ELSE "player",
                          playerId |-> p, score |-> sc, sessionId |-> sid,
                          gameMode |-> m]]
                    /\ rateLimit' = rateCheck.map
                    /\ UNCHANGED resp
        /\ UNCHANGED <<players, now, calls, session, joins, attempts,
                       connectedPlayers, socketToPlayer, roomSubscriptions,
                       sockets, lastSweep>>

\* the findOne that also takes a session that is not active
activeSessionOf_anyStatus(doc, playerId) ==
    doc.exists /\ playerId \in participantIds(doc)

\* GameSession.updatePlayerScore's findOne({ sessionId, status: 'active',
\* 'players.playerId': playerId }) finds the session
activeSessionOf(doc, playerId) ==
    /\ doc.exists
    /\ doc.status = "active"
    /\ playerId \in participantIds(doc)

\* sessionUpdate = await GameSession.updatePlayerScore(sessionId, ...); an
\* error it throws ends the handler with internal_error
ScoreEvent_session ==
    \E s \in SocketIds :
        /\ resp = NoResp
        /\ handlers[s].score.pc = "session"
        /\ LET h == handlers[s].score
           IN  IF activeSessionOf(session, h.playerId)
               THEN /\ eventsRoom(1)
                    /\ session' = preSave(GameSession_updatePlayerScore(
                                            session, h.playerId, h.score))
                    /\ handlers' = [handlers EXCEPT ![s].score.pc = "player"]
                    /\ UNCHANGED resp
               ELSE /\ resp' = errorEmit(s, "score:update", h.playerId,
                                         "internal_error")
                    /\ handlers' = [handlers EXCEPT ![s].score = Idle]
                    /\ UNCHANGED session
        /\ UNCHANGED <<players, now, calls, joins, limiter, connectedPlayers,
                       socketToPlayer, roomSubscriptions, sockets, lastSweep>>

\* updatedPlayer = await Player.updatePlayerScore(playerId, score, gameMode)
ScoreEvent_player ==
    \E s \in SocketIds :
        /\ resp = NoResp
        /\ handlers[s].score.pc = "player"
        /\ gamesRoom(handlers[s].score.playerId)
        /\ LET h == handlers[s].score
           IN  IF players[h.playerId].exists
               THEN /\ players' = Player_updatePlayerScore(h.playerId, h.score,
                                                          h.gameMode)
                    /\ handlers' = [handlers EXCEPT ![s].score.pc = "finish"]
                    /\ UNCHANGED resp
               ELSE /\ resp' = errorEmit(s, "score:update", h.playerId,
                                         "update_failed")
                    /\ handlers' = [handlers EXCEPT ![s].score = Idle]
                    /\ UNCHANGED players
        /\ UNCHANGED <<now, calls, session, joins, limiter, connectedPlayers,
                       socketToPlayer, roomSubscriptions, sockets, lastSweep>>

\* the rest of handleScoreUpdate: the connection info, the confirmation to
\* the socket (socket.emit), the broadcast to the others in the player's
\* rooms (socket.to(room), which leaves the sender out) and the one to
\* everyone in the session room (this.io.to)
ScoreEvent_finish ==
    \E s \in SocketIds :
        /\ resp = NoResp
        /\ handlers[s].score.pc = "finish"
        /\ LET h == handlers[s].score
           IN  /\ connectedPlayers' = touch(h.playerId, h.gameMode)
               /\ resp' = [op |-> "emit", socket |-> s,
                           event |-> "score:updated",
                           request |-> "score:update",
                           playerId |-> h.playerId, newScore |-> h.score,
                           broadcast |-> roomsOf(h.playerId),
                           toRoom |-> IF Truthy(h.sessionId)
                                      THEN {<<"session", h.sessionId>>}
                                      ELSE {}]
        /\ handlers' = [handlers EXCEPT ![s].score = Idle]
        /\ UNCHANGED <<players, now, calls, session, joins, limiter,
                       socketToPlayer, roomSubscriptions, sockets, lastSweep>>

\* handlePlayerStatus up to the answer of Player.findOne: player:status
\* arrives on socket s naming a player; the ownership check
StatusEvent_check(ids) ==
    \E s \in SocketIds, p \in ids, isOnline \in BOOLEAN :
        /\ resp = NoResp
        /\ sockets[s].status = "connected"
        /\ handlers[s].status = Idle
        /\ IF notOwner(s, p)
           THEN /\ resp' = errorEmit(s, "player:status", p, "unauthorized")
                /\ UNCHANGED handlers
           ELSE IF ~players[p].exists
           THEN /\ resp' = errorEmit(s, "player:status", p, "player_not_found")
                /\ UNCHANGED handlers
           ELSE /\ handlers' = [handlers EXCEPT ![s].status =
                        [pc |-> "save", playerId |-> p, doc |-> load(p),
                         isOnline |-> isOnline]]
                /\ UNCHANGED resp
        /\ UNCHANGED <<players, now, calls, session, joins, limiter,
                       connectedPlayers, socketToPlayer, roomSubscriptions,
                       sockets, lastSweep>>

\* await player.updateOnlineStatus(isOnline)
StatusEvent_save ==
    \E s \in SocketIds :
        /\ resp = NoResp
        /\ handlers[s].status.pc = "save"
        /\ players' = updateOnlineStatus(handlers[s].status.doc,
                                         handlers[s].status.isOnline)
        /\ handlers' = [handlers EXCEPT ![s].status.pc = "finish"]
        /\ UNCHANGED <<now, resp, calls, session, joins, limiter,
                       connectedPlayers, socketToPlayer, roomSubscriptions,
                       sockets, lastSweep>>

\* the rest of handlePlayerStatus: the connection info, the broadcast to
\* the player's rooms, the confirmation to the socket
StatusEvent_finish ==
    \E s \in SocketIds :
        /\ resp = NoResp
        /\ handlers[s].status.pc = "finish"
        /\ LET h == handlers[s].status
           IN  /\ connectedPlayers' = touch(h.playerId, None)
               /\ resp' = [op |-> "emit", socket |-> s,
                           event |-> "player:status_updated",
                           request |-> "player:status",
                           playerId |-> h.playerId, isOnline |-> h.isOnline,
                           broadcast |-> roomsOf(h.playerId)]
        /\ handlers' = [handlers EXCEPT ![s].status = Idle]
        /\ UNCHANGED <<players, now, calls, session, joins, limiter,
                       socketToPlayer, roomSubscriptions, sockets, lastSweep>>

\* ------------------------------------------------------------ ownership
\* one connection that may bind to p1 or to p2, and score and status events
\* that all name p1
NextAuth ==
    \/ Deliver
    \/ CreatePlayer({"p1", "p2"}, {<<"NA", "classic">>})
    \/ Connect({"s1"})
    \/ PlayerJoin_findOne({"p1", "p2"}, {<<None, None>>})
    \/ PlayerJoin_online
    \/ PlayerJoin_register
    \/ ScoreEvent_check({"p1"}, {1}, {None, "g1"}, {None})
    \/ ScoreEvent_session
    \/ ScoreEvent_player
    \/ ScoreEvent_finish
    \/ StatusEvent_check({"p1"})
    \/ StatusEvent_save
    \/ StatusEvent_finish

SpecAuth == Init /\ [][NextAuth]_vars

\* the step in which a score:update or player:status event naming p
\* arrives on socket s: the handler answers it at once or starts its work
arrives(s, p) ==
    \/ /\ resp = NoResp
       /\ "request" \in DOMAIN resp'
       /\ resp'.socket = s
       /\ resp'.request \in {"score:update", "player:status"}
       /\ resp'.playerId = p
       /\ handlers' = handlers
    \/ /\ handlers[s].score = Idle
       /\ handlers'[s].score # Idle
       /\ handlers'[s].score.playerId = p
    \/ /\ handlers[s].status = Idle
       /\ handlers'[s].status # Idle
       /\ handlers'[s].status.playerId = p

\* C17: a score-update or status-update event naming player p that arrives
\* on a connection not bound to p is rejected with Unauthorized, changes
\* neither the players' records, nor the session, nor a registry map, and
\* triggers no confirmation and no broadcast
C17_UnboundIsUnauthorized ==
    [][\A s \in SocketIds, p \in PlayerIds :
          (notOwner(s, p) /\ arrives(s, p))
              => /\ "type" \in DOMAIN resp'
                 /\ resp'.event = "error"
                 /\ resp'.type = "unauthorized"
                 /\ resp'.broadcast = {}
                 /\ handlers' = handlers
                 /\ UNCHANGED <<players, session, connectedPlayers,
                                socketToPlayer, roomSubscriptions>>]_vars

\* ------------------------------------------------------------ offline notice
\* C21: when the disconnect handler of a connection bound to player p
\* finishes, also after a disconnect forced by the idle sweep, p is offline
\* in the store and the handler has emitted the offline notification to p's
\* channel set. (Under SpecSweep a bound player's channel set is the one
\* its join registered: the rooms of its stored region and game mode.)
C21_OfflineNotice ==
    [][\A s \in SocketIds :
          (handlers[s].disc # Idle /\ handlers'[s].disc = Idle
                /\ players[handlers[s].disc.playerId].exists)
              => LET p == handlers[s].disc.playerId
                 IN  /\ ~players'[p].isOnline
                     /\ resp'.op = "emit"
                     /\ resp'.event = "player:offline"
                     /\ generateRoomNames(players[p].region,
                                          players[p].currentGameMode)
                            \subseteq resp'.broadcast]_vars

\* ------------------------------------------------------------ binding
\* C22: the registry binds connections and players one to one: the
\* player->connection map sends p to connection c if and only if the
\* connection->player map sends c to p, so that a re-join leaves no entry
\* for the earlier connection or the earlier player
C22_OneToOne ==
    \A c \in SocketIds, p \in PlayerIds :
        (has(connectedPlayers, p) /\ connectedPlayers[p].socketId = c)
            <=> (has(socketToPlayer, c) /\ socketToPlayer[c] = p)

\* ------------------------------------------------------------ score events
\* one connection that joins as p1 and changes its channels, a session p1
\* and p2 may enter, and score events naming p1: with a score that is valid
\* or not, with the session's id or none
NextUpdates ==
    \/ Deliver
    \/ CreatePlayer({"p1", "p2"}, {<<"NA", "classic">>})
    \/ Connect({"s1"})
    \/ PlayerJoin_findOne({"p1"}, {<<None, None>>})
    \/ PlayerJoin_online
    \/ PlayerJoin_register
    \/ Unsubscribe({<<"NA", "classic">>})
    \/ CreateSession({2})
    \/ Join({"p1", "p2"})
    \/ ScoreEvent_check({"p1"}, {0 - 1, 1}, {None, "g1"}, {None})
    \/ ScoreEvent_session
    \/ ScoreEvent_player
    \/ ScoreEvent_finish

SpecUpdates == Init /\ [][NextUpdates]_vars

\* a step in which the score handler of socket s ends
scoreHandlerEnds(s) == handlers[s].score # Idle /\ handlers'[s].score = Idle

C24_SubscribeNeedsJoin ==
    [][\A s \in SocketIds :
          (resp = NoResp /\ "request" \in DOMAIN resp' /\ resp'.socket = s
                /\ resp'.request \in {"leaderboard:subscribe",
                                      "leaderboard:unsubscribe"})
              => /\ UNCHANGED <<players, connectedPlayers, socketToPlayer>>
                 /\ IF has(socketToPlayer, s)
                    THEN LET p == socketToPlayer[s]
                             before == IF has(roomSubscriptions, p)
                                       THEN roomSubscriptions[p] ELSE {}
                         IN  /\ resp'.op = "emit"
                             /\ roomSubscriptions' = set(roomSubscriptions, p,
                                  IF resp'.request = "leaderboard:subscribe"
                                  THEN before \cup resp'.rooms
                                  ELSE before \ resp'.rooms)
                    ELSE /\ resp'.op = "emit"
                         /\ resp'.event = "error"
                         /\ resp'.type = "not_authenticated"
                         /\ UNCHANGED roomSubscriptions]_vars

\* ------------------------------------------------------------ join errors
\* two connections and join events that name p1, who may exist, or p2, who
\* never does, with a payload that is valid or has an unknown region
NextHandshake ==
    \/ Deliver
    \/ CreatePlayer({"p1"}, {<<"NA", "classic">>})
    \/ Connect(SocketIds)
    \/ PlayerJoin_findOne({"p1", "p2"}, {<<None, None>>, <<"EU", "ranked">>,
                                         <<"MARS", None>>})
    \/ PlayerJoin_online
    \/ PlayerJoin_register

SpecHandshake == Init /\ [][NextHandshake]_vars

\* C25: a join event is either answered at once with an error event, and
\* then no registry map, no socket (its rooms, its being open) and no
\* player record changes, or it starts the handshake, and then its payload
\* is valid and its player exists; the online flag and the registry change
\* only in the steps of a handshake so started.
C25_JoinErrors ==
    [][/\ \A s \in SocketIds :
            /\ (resp = NoResp /\ "request" \in DOMAIN resp'
                      /\ resp'.request = "player:join" /\ resp'.socket = s)
                  => /\ resp'.event = "error"
                     /\ resp'.type \in {"validation_error", "player_not_found"}
                     /\ resp'.type = "player_not_found"
                            => ~players[resp'.playerId].exists
                     /\ UNCHANGED <<players, connectedPlayers, socketToPlayer,
                                    roomSubscriptions, sockets, handlers>>
            /\ (handlers[s].join = Idle /\ handlers'[s].join # Idle)
                  => /\ players[handlers'[s].join.playerId].exists
                     /\ handlers'[s].join.region
                            \in {"NA", "EU", "ASIA", "SA", "OCE", "GLOBAL"}
                     /\ handlers'[s].join.gameMode
                            \in {"classic", "blitz", "survival", "team", "ranked"}
       /\ (\E p \in PlayerIds : players[p].exists /\ players'[p].exists
                                  /\ players'[p].isOnline /\ ~players[p].isOnline)
             \/ connectedPlayers' # connectedPlayers
             \/ socketToPlayer' # socketToPlayer
             \/ roomSubscriptions' # roomSubscriptions
            => \E s \in SocketIds :
                  /\ handlers[s].join # Idle
                  /\ handlers'[s].join # handlers[s].join]_vars

\* a join with an unknown region has been answered with a validation error
\* on a connection that is still open and bound to nobody, p1 being offline
C25_Witness ==
    /\ resp.op = "emit"
    /\ resp.event = "error"
    /\ resp.request = "player:join"
    /\ resp.type = "validation_error"
    /\ sockets[resp.socket].status = "connected"
    /\ ~has(socketToPlayer, resp.socket)
    /\ players["p1"].exists
    /\ ~players["p1"].isOnline

\* ------------------------------------------------------------ best score
\* C26: a write to a player record leaves it with bestScore >= currentScore,
\* bestScore being the larger of the bestScore before and the currentScore
\* written
C26_BestCoversCurrent ==
    [][\A p \in PlayerIds :
          (players[p].exists /\ players'[p] # players[p])
              => /\ players'[p].bestScore >= players'[p].currentScore
                 /\ players'[p].bestScore =
                        Max(players[p].bestScore, players'[p].currentScore)]_vars

\* ------------------------------------------------------------ game results
\* the largest score a game result may leave
MaxResultScore == 2

\* doc.addGameResult(result, scoreChange): the score is set on the loaded
\* document, the save hook runs on it, and save() writes the paths whose
\* value changed
addGameResult(doc, scoreChange) ==
    LET changed == [doc EXCEPT
                        !.currentScore = Max(0, doc.currentScore + scoreChange)]
    IN  [players EXCEPT ![doc.playerId] =
            [@ EXCEPT !.currentScore = IF changed.currentScore # doc.currentScore
                                       THEN changed.currentScore ELSE @,
                      !.totalGamesPlayed = doc.totalGamesPlayed + 1,
                      !.bestScore = IF bestAfterSave(changed) # doc.bestScore
                                    THEN bestAfterSave(changed) ELSE @]]

\* POST /api/players/:playerId/game-result up to the answer of
\* Player.findOne, for a result and a scoreChange of the request body, as
\* one of the requests in reqs
GameResult_findOne(reqs, ids, results, changes) ==
    \E r \in reqs, p \in ids, result \in results, scoreChange \in changes :
        /\ resp = NoResp
        /\ calls[r] = Idle
        /\ IF result \notin {"win", "loss", "draw"}
           THEN /\ resp' = [op |-> "result", playerId |-> p, status |-> 400]
                /\ UNCHANGED calls
           ELSE IF ~players[p].exists
           THEN /\ resp' = [op |-> "result", playerId |-> p, status |-> 404]
                /\ UNCHANGED calls
           ELSE /\ load(p).currentScore + scoreChange <= MaxResultScore
                /\ calls' = [calls EXCEPT ![r] =
                        [pc |-> "result", playerId |-> p, doc |-> load(p),
                         scoreChange |-> scoreChange]]
                /\ UNCHANGED resp
        /\ UNCHANGED <<players, now, session, joins, limiter, registry>>

\* const updatedPlayer = await player.addGameResult(result, scoreChange)
GameResult_save ==
    \E r \in ReqIds :
        /\ resp = NoResp
        /\ calls[r].pc = "result"
        /\ calls[r].doc.totalGamesPlayed < MaxGames
        /\ players' = addGameResult(calls[r].doc, calls[r].scoreChange)
        /\ resp' = [op |-> "result", playerId |-> calls[r].playerId,
                    status |-> 200,
                    currentScore |-> Max(0, calls[r].doc.currentScore
                                            + calls[r].scoreChange)]
        /\ calls' = [calls EXCEPT ![r] = Idle]
        /\ UNCHANGED <<now, session, joins, limiter, registry>>

\* one player, one connection, and score updates, join handshakes, status
\* updates, disconnects and game results in any interleaving
NextBest ==
    \/ Deliver
    \/ CreatePlayer({"p1"}, {<<"NA", "classic">>})
    \/ ScoreWrite({None})
    \/ Connect({"s1"})
    \/ PlayerJoin_findOne({"p1"}, {<<None, None>>})
    \/ PlayerJoin_online
    \/ PlayerJoin_register
    \/ StatusEvent_check({"p1"})
    \/ StatusEvent_save
    \/ StatusEvent_finish
    \/ Disconnect({"s1"})
    \/ Disconnection_findOne
    \/ Disconnection_offline
    \/ Disconnection_purge
    \/ GameResult_findOne({"r1"}, {"p1"}, {"win", "void"}, {0 - 1, 2})
    \/ GameResult_save

SpecBest == Init /\ [][NextBest]_vars

\* C29: a player's bestScore never decreases
C29_BestNeverDecreases ==
    [][\A p \in PlayerIds :
          (players[p].exists /\ players'[p].exists)
              => players'[p].bestScore >= players[p].bestScore]_vars

\* ------------------------------------------------------------ one at a time
\* C27: the handlers of one connection's events do not overlap: at most one
\* of them is between its start and its end, so that none starts before the
\* one before it, its awaited store calls included, has finished
C27_NoOverlap ==
    \A s \in SocketIds :
        Cardinality({k \in DOMAIN handlers[s] : handlers[s][k] # Idle}) <= 1

\* ------------------------------------------------------------ old and new
\* C28: the disconnect handler of an old connection of player p does not
\* delete the registry entry or the channel set that a join of another
\* connection made for p, and once no handler is in flight p is not
\* offline in the store while an open connection is bound to it
C28_OldDisconnectSparesNewJoin ==
    /\ [][\A s \in SocketIds :
            (handlers[s].disc # Idle /\ handlers'[s].disc = Idle
                  /\ has(connectedPlayers, handlers[s].disc.playerId)
                  /\ connectedPlayers[handlers[s].disc.playerId].socketId # s)
                => /\ connectedPlayers' = connectedPlayers
                   /\ roomSubscriptions' = roomSubscriptions]_vars
    /\ [](\A c \in SocketIds, p \in PlayerIds :
            ((\A s \in SocketIds : handlers[s] = NoHandlers)
                  /\ sockets[c].status = "connected"
                  /\ has(socketToPlayer, c) /\ socketToPlayer[c] = p
                  /\ has(connectedPlayers, p)
                  /\ connectedPlayers[p].socketId = c)
                => players[p].isOnline)

\* ------------------------------------------------------------ usernames
\* POST /api/players up to the answer of Player.findOne({ username }), for
\* a (trimmed) username of the request body, as one of the requests in reqs
CreatePlayer_findOne(reqs, names) ==
    \E r \in reqs, username \in names :
        /\ resp = NoResp
        /\ calls[r] = Idle
        /\ IF \E q \in Existing : players[q].username = username
           THEN /\ resp' = [op |-> "create", username |-> username,
                            status |-> 409, error |-> "DUPLICATE_USERNAME"]
                /\ UNCHANGED calls
           ELSE /\ calls' = [calls EXCEPT ![r] =
                        [pc |-> "create", username |-> username]]
                /\ UNCHANGED resp
        /\ UNCHANGED <<players, now, session, joins, limiter, registry>>

\* const savedPlayer = await newPlayer.save(): the schema's username index
\* is not unique, so the insert goes through; playerId is a fresh uuid,
\* region and currentGameMode are the schema's defaults
CreatePlayer_save ==
    \E r \in ReqIds, p \in PlayerIds :
        /\ resp = NoResp
        /\ calls[r].pc = "create"
        /\ ~players[p].exists
        /\ players' = [players EXCEPT ![p] =
                [exists |-> TRUE, username |-> calls[r].username,
                 region |-> "GLOBAL", currentGameMode |-> "classic",
                 currentScore |-> 0, totalGamesPlayed |-> 0, bestScore |-> 0,
                 lastActiveAt |-> now, isOnline |-> FALSE]]
        /\ resp' = [op |-> "create", username |-> calls[r].username,
                    status |-> 201, playerId |-> p]
        /\ calls' = [calls EXCEPT ![r] = Idle]
        /\ UNCHANGED <<now, session, joins, limiter, registry>>

\* two requests in flight that create players named ann or bob
NextNames ==
    \/ Deliver
    \/ CreatePlayer_findOne(ReqIds, {"ann", "bob"})
    \/ CreatePlayer_save

SpecNames == Init /\ [][NextNames]_vars

\* C30: no two player records have the same username, and a create request
\* with a username in use is answered with a conflict and stores nothing
C30_UniqueNames ==
    /\ \A p \in Existing, q \in Existing :
          players[p].username = players[q].username => p = q
    /\ (resp.op = "create" /\ resp.status = 201)
          => \A q \in Existing \ {resp.playerId} :
                players[q].username # resp.username

\* ------------------------------------------------------------ two writers
\* a score-update request past its store write, with the document the
\* write returned
written(r) == calls[r].pc \in {"findOne", "count"}
    \/ (calls[r].pc = "done" /\ calls[r].status = 200)

\* C31: every store write of a score update sets the score and counts one
\* game, whatever runs beside it; so when two score updates of one player
\* are in flight together their writes returned different counter values,
\* the counter stands at the later one (2 above its value before the two),
\* and the stored score is the score of the write applied last
C31_LastWriteWins ==
    /\ [][\A r \in ReqIds :
            (calls[r].pc = "idle" /\ written(r)')
                => LET p == calls'[r].playerId
                   IN  /\ players'[p].currentScore = calls'[r].score
                       /\ players'[p].totalGamesPlayed
                              = players[p].totalGamesPlayed + 1
                       /\ calls'[r].totalGamesPlayed
                              = players'[p].totalGamesPlayed]_vars
    /\ [](\A r \in ReqIds :
            written(r) =>
                LET p == calls[r].playerId
                IN  /\ calls[r].totalGamesPlayed <= players[p].totalGamesPlayed
                    /\ calls[r].totalGamesPlayed = players[p].totalGamesPlayed
                          => players[p].currentScore = calls[r].score
                    /\ \A q \in ReqIds \ {r} :
                          (written(q) /\ calls[q].playerId = p)
                              => /\ calls[q].totalGamesPlayed
                                        # calls[r].totalGamesPlayed
                                 /\ players[p].totalGamesPlayed
                                        >= Min(calls[q].totalGamesPlayed,
                                               calls[r].totalGamesPlayed) + 1)

\* two updates of p1, to 1 and then to 0, are in flight together: the
\* store holds 0 and two games
C31_Witness ==
    /\ written("r1") /\ written("r2")
    /\ calls["r1"].playerId = "p1" /\ calls["r2"].playerId = "p1"
    /\ calls["r1"].score = 1 /\ calls["r2"].score = 0
    /\ calls["r1"].totalGamesPlayed = 1 /\ calls["r2"].totalGamesPlayed = 2
    /\ players["p1"].currentScore = 0
    /\ players["p1"].totalGamesPlayed = 2

\* ------------------------------------------------------------ rate-limit state
\* C32: a player's timestamp list holds at most as many entries as the cap
\* of the player's attempts, and a player whose latest attempt is more than
\* 60 seconds old has no entry left in the map
C32_RateStateBounded ==
    \A p \in DOMAIN rateLimit :
        /\ \A i \in 1..Len(attempts) :
              attempts[i].playerId = p => Len(rateLimit[p]) <= attempts[i].cap
        /\ \E i \in 1..Len(attempts) :
              attempts[i].playerId = p /\ attempts[i].at >= now - RateWindow

\* ------------------------------------------------------------ session score route
\* A request body is a function from its keys to their values.

\* schema.validate(req.body, { stripUnknown: true }) with
\* sessionSchemas.scoreUpdate: the value keeps the schema's keys only
scoreUpdateValue(body) ==
    [k \in DOMAIN body \cap {"score", "delta", "reason"} |-> body[k]]

\* the schema reports an error: score is required and at least 0
scoreUpdateError(body) == "score" \notin DOMAIN body \/ body.score < 0

\* POST /api/sessions/:sessionId/score with body { playerId, score }:
\* validateSessionScoreUpdate replaces req.body by the validated value,
\* then the handler reads playerId and score from it
SessionScoreRoute(ids, scores) ==
    \E p \in ids, sc \in scores :
        LET sent == [playerId |-> p, score |-> sc]
            body == scoreUpdateValue(sent)
            answer(status, error) ==
                [op |-> "sessionScore", sent |-> sent, status |-> status,
                 error |-> error]
        IN  /\ resp = NoResp
            /\ eventsRoom(1)
            /\ gamesRoom(p)
            /\ IF scoreUpdateError(sent)
               THEN /\ resp' = answer(400, "VALIDATION")
                    /\ UNCHANGED <<session, players>>
               ELSE IF "playerId" \notin DOMAIN body
               THEN /\ resp' = answer(400, "MISSING_PLAYER_ID")
                    /\ UNCHANGED <<session, players>>
               ELSE IF session.exists /\ session.status = "active"
                        /\ body.playerId \in participantIds(session)
               THEN /\ session' = preSave(GameSession_updatePlayerScore(
                                            session, body.playerId, body.score))
                    /\ players' = IF players[body.playerId].exists
                                  THEN Player_updatePlayerScore(body.playerId,
                                                                body.score, None)
                                  ELSE players
                    /\ resp' = answer(200, None)
               ELSE /\ resp' = answer(404, "SESSION_OR_PLAYER_NOT_FOUND")
                    /\ UNCHANGED <<session, players>>
            /\ UNCHANGED <<now, joins, beyondSession>>

NextRoute ==
    \/ Deliver
    \/ CreatePlayer(SessionPlayers, {<<"NA", "classic">>})
    \/ CreateSession({2})
    \/ Join(SessionPlayers)
    \/ Leave(SessionPlayers)
    \/ SessionScoreRoute(SessionPlayers, {0 - 1, 1})

SpecRoute == Init /\ [][NextRoute]_vars

\* C33: a request to the session score route with the playerId of a
\* participant of the active session and a valid score is answered 200,
\* and the participant's session score and the player's stored score are
\* then the score
C33_RouteStoresScore ==
    [][(resp = NoResp /\ resp'.op = "sessionScore"
            /\ session.exists /\ session.status = "active"
            /\ resp'.sent.playerId \in participantIds(session)
            /\ resp'.sent.score >= 0)
          => LET p == resp'.sent.playerId
             IN  /\ resp'.status = 200
                 /\ session'.players[findIndex(session'.players, p)]
                        .currentSessionScore = resp'.sent.score
                 /\ players'[p].currentScore = resp'.sent.score]_vars

\* ------------------------------------------------------------ rate window and ownership
\* C34: a score-update event that fails the ownership check does not count
\* against the named player's rate-limit window: the step that answers it
\* with unauthorized leaves the rate-limit map as it was
C34_UnownedNotCounted ==
    [][(resp = NoResp /\ "type" \in DOMAIN resp'
            /\ resp'.request = "score:update"
            /\ resp'.type = "unauthorized")
          => rateLimit' = rateLimit]_vars

\* ------------------------------------------------------------ registry and transport
\* C35: in every reachable state the channel set the registry records for
\* a bound player is the set of leaderboard channels (the rooms that are
\* not session rooms) its connection is a member of in the transport
C35_RegistryMatchesTransport ==
    \A s \in SocketIds :
        (has(socketToPlayer, s) /\ has(roomSubscriptions, socketToPlayer[s]))
            => roomSubscriptions[socketToPlayer[s]] =
                    {room \in sockets[s].rooms : room[1] # "session"}

\* ------------------------------------------------------------ broadcast fan-out
\* rooms.forEach(room => socket.to(room).emit(event, data)): one emit per
\* room, each delivered to the members of that room other than the sender;
\* the number of copies of the event connection c receives
copies(c, sender, rooms) ==
    IF c = sender THEN 0
    ELSE Cardinality({room \in rooms : room \in sockets[c].rooms})

\* two connections that join as p1, score events of p1 without a session
NextFanout ==
    \/ Deliver
    \/ CreatePlayer({"p1"}, {<<"NA", "classic">>})
    \/ Connect({"s1", "s2"})
    \/ PlayerJoin_findOne({"p1"}, {<<None, None>>})
    \/ PlayerJoin_online
    \/ PlayerJoin_register
    \/ ScoreEvent_check({"p1"}, {1}, {None}, {None})
    \/ ScoreEvent_player
    \/ ScoreEvent_finish

SpecFanout == Init /\ [][NextFanout]_vars

\* C36: for one accepted score update every other connection receives the
\* leaderboard score broadcast at most once, and a connection that is in
\* none of the player's channels receives none
C36_BroadcastOnce ==
    (resp.op = "emit" /\ resp.event = "score:updated")
        => \A c \in SocketIds \ {resp.socket} :
              /\ copies(c, resp.socket, resp.broadcast) <= 1
              /\ (sockets[c].rooms \cap resp.broadcast = {}
                    => copies(c, resp.socket, resp.broadcast) = 0)

\* ------------------------------------------------------------ listed rank
\* C37: the rank a page or a top listing shows for a player under a region
\* and game-mode filter (without the online-only restriction, which the
\* rank lookup does not have) is the player's rank by the rank lookup under
\* the same filter
C37_ListedRankIsRank ==
    (resp.op \in {"top", "page"} /\ resp.body.status = 200 /\ ~resp.onlineOnly)
        => LET l == IF resp.op = "top" THEN resp.body.topPlayers
                    ELSE resp.body.leaderboard
           IN  \A i \in 1..Len(l) :
                  l[i].rank = getPlayerRank(l[i].playerId, resp.region,
                                            resp.gameMode)

\* ------------------------------------------------------------ failed session part
\* C38: when the session part of a session-scoped score:update fails (there
\* is no active session, or the player is not one of its participants), the
\* handler ends in that step with an error event to the sender, and the
\* players' stored scores and games-played counters stay as they were
C38_FailedSessionPart ==
    [][\A s \in SocketIds :
          (/\ handlers[s].score.pc = "session"
           /\ handlers'[s].score # handlers[s].score
           /\ \/ ~session.exists
              \/ session.status # "active"
              \/ handlers[s].score.playerId \notin participantIds(session))
            => /\ handlers'[s].score = Idle
               /\ resp'.op = "emit"
               /\ resp'.socket = s
               /\ resp'.event = "error"
               /\ \A p \in PlayerIds :
                     players[p].exists =>
                        /\ players'[p].currentScore = players[p].currentScore
                        /\ players'[p].totalGamesPlayed =
                              players[p].totalGamesPlayed]_vars

\* a session-scoped update of a participant of a session that is still
\* waiting has been answered with an error
C38_Witness ==
    /\ resp.op = "emit"
    /\ resp.event = "error"
    /\ resp.type = "internal_error"
    /\ resp.request = "score:update"
    /\ session.exists
    /\ session.status = "waiting"
    /\ resp.playerId \in participantIds(session)
    /\ players[resp.playerId].currentScore = 0
    /\ players[resp.playerId].totalGamesPlayed = 0

\* ------------------------------------------------------------ entries of players who left
\* the entry of player p in the session is marked inactive
hasLeft(doc, p) ==
    /\ doc.exists
    /\ findIndex(doc.players, p) # 0
    /\ ~doc.players[findIndex(doc.players, p)].isActive

\* C39: an entry's active flag never goes from false back to true; a join
\* by a player whose entry is inactive leaves the session as it is; the
\* entries of players who left count toward the capacity (a join on a
\* joinable session with maxPlayers entries is refused as full whatever the
\* number of active ones); and end gives every entry, the inactive ones
\* included, a position
C39_LeftStaysLeft ==
    /\ [][(session.exists /\ session'.exists) =>
            \A i \in 1..Len(session.players) :
                /\ i <= Len(session'.players)
                /\ session'.players[i].playerId = session.players[i].playerId
                /\ ~session.players[i].isActive
                      => ~session'.players[i].isActive]_vars
    /\ [][(resp = NoResp /\ resp'.op = "join"
                /\ hasLeft(session, resp'.playerId))
            => session' = session]_vars
    /\ [][(resp = NoResp /\ resp'.op = "join"
                /\ players[resp'.playerId].exists /\ joinable(session)
                /\ Len(session.players) >= session.maxPlayers)
            => (resp'.status = 409 /\ session' = session)]_vars
    /\ [][(resp = NoResp /\ resp'.op = "end" /\ resp'.status = 200)
            => \A i \in 1..Len(session'.players) :
                  session'.players[i].position \in 1..Len(session'.players)]_vars

\* a player who left a session that has room and is still active asks to
\* join again and is answered 200, the entry still inactive
C39_Witness ==
    /\ resp.op = "join"
    /\ resp.status = 200
    /\ hasLeft(session, resp.playerId)
    /\ session.status = "active"
    /\ Len(session.players) < session.maxPlayers

\* ------------------------------------------------------------ idle sweep and activity
\* socket.on('ping'): the heartbeat is answered with pong
Ping ==
    \E s \in SocketIds :
        /\ resp = NoResp
        /\ sockets[s].status = "connected"
        /\ resp' = [op |-> "emit", socket |-> s, event |-> "pong",
                    request |-> "ping", broadcast |-> {}]
        /\ UNCHANGED <<players, connectedPlayers, socketToPlayer,
                       roomSubscriptions, sockets, handlers, beyondSockets>>

\* handleSessionJoin: session:join arrives on socket s
SessionRoomJoin(sessionIds) ==
    \E s \in SocketIds, sid \in sessionIds :
        /\ resp = NoResp
        /\ sockets[s].status = "connected"
        /\ IF ~has(socketToPlayer, s) \/ ~Truthy(sid)
           THEN /\ resp' = [op |-> "emit", socket |-> s, event |-> "error",
                            type |-> "invalid_data",
                            request |-> "session:join", broadcast |-> {}]
                /\ UNCHANGED sockets
           ELSE /\ sockets' = [sockets EXCEPT
                                 ![s].rooms = @ \cup {<<"session", sid>>}]
                /\ resp' = [op |-> "emit", socket |-> s,
                            event |-> "session:joined",
                            request |-> "session:join", sessionId |-> sid,
                            broadcast |-> {<<"session", sid>>}]
        /\ UNCHANGED <<players, connectedPlayers, socketToPlayer,
                       roomSubscriptions, handlers, beyondSockets>>

\* handleSessionLeave: session:leave arrives on socket s; without a
\* sessionId it returns and emits nothing (op "return")
SessionRoomLeave(sessionIds) ==
    \E s \in SocketIds, sid \in sessionIds :
        /\ resp = NoResp
        /\ sockets[s].status = "connected"
        /\ IF ~Truthy(sid)
           THEN /\ resp' = [op |-> "return", socket |-> s,
                            request |-> "session:leave", broadcast |-> {}]
                /\ UNCHANGED sockets
           ELSE /\ sockets' = [sockets EXCEPT
                                 ![s].rooms = @ \ {<<"session", sid>>}]
                /\ resp' = [op |-> "emit", socket |-> s,
                            event |-> "session:left",
                            request |-> "session:leave", sessionId |-> sid,
                            broadcast |-> IF has(socketToPlayer, s)
                                          THEN {<<"session", sid>>} ELSE {}]
        /\ UNCHANGED <<players, connectedPlayers, socketToPlayer,
                       roomSubscriptions, handlers, beyondSockets>>

\* the times, in seconds, at which something happens
ActivityTimes == {300, 600, 900}

\* one connection that may join as p1 and as p2, its events, the clock and
\* the cleanup interval
NextActivity ==
    \/ Deliver
    \/ CreatePlayer({"p1", "p2"}, {<<"NA", "classic">>})
    \/ Connect({"s1"})
    \/ PlayerJoin_findOne({"p1", "p2"}, {<<None, None>>})
    \/ PlayerJoin_online
    \/ PlayerJoin_register
    \/ StatusEvent_check({"p2"})
    \/ StatusEvent_save
    \/ StatusEvent_finish
    \/ Ping
    \/ SessionRoomJoin({"g1"})
    \/ SessionRoomLeave({"g1"})
    \/ Disconnection_findOne
    \/ Disconnection_offline
    \/ Disconnection_purge
    \/ Advance(ActivityTimes)
    \/ Sweep

SpecActivity == Init /\ [][NextActivity]_vars

\* C40: the idle sweep never evicts a connection whose last activity is at
\* most 10 minutes old: when the cleanup interval fires, a connected socket
\* that is bound to a player whose connection entry was refreshed (by a
\* join, an accepted score update or a status update of that player) no
\* more than 600 s ago stays connected, and that entry stays in the map
C40_SweepSparesActive ==
    [][lastSweep' # lastSweep =>
          \A s \in SocketIds :
              (/\ sockets[s].status = "connected"
               /\ has(socketToPlayer, s)
               /\ has(connectedPlayers, socketToPlayer[s])
               /\ connectedPlayers[socketToPlayer[s]].socketId = s
               /\ now - connectedPlayers[socketToPlayer[s]].lastActivity
                      <= InactiveThreshold)
                => /\ sockets'[s].status = "connected"
                   /\ has(connectedPlayers', socketToPlayer[s])]_vars

====
